---- MODULE Spec2Model ----
(***************************************************************************)
(* Chess rules engine and game controller of models.py, with the /start    *)
(* and /ai-move handlers of app.py.                                        *)
(*                                                                         *)
(* A square is the tuple <<col, row>> with col, row in 0..7; <<0,0>> is a1.*)
(* A Piece object is a piece id in 1..32 (its identity); its immutable     *)
(* symbol is read from PieceTable and its mutable `position` field is kept *)
(* in board.position.  board.grid maps each square to the id of the piece  *)
(* object the slot references, or to NoPiece (Python None).                *)
(***************************************************************************)
EXTENDS Integers, Sequences, FiniteSets, TLC

\* ------------------------------------------------------------------ values

White == "white"
Black == "black"
Colors == {White, Black}
None == "None"

NoPiece == 0

Squares == (0..7) \X (0..7)

Sq(col, row) == <<col, row>>

\* PieceColor.BLACK if color == PieceColor.WHITE else PieceColor.WHITE
Opposite(color) == IF color = White THEN Black ELSE White

\* The 32 Piece objects, in the order Board.setup_board constructs them:
\* the symbol each constructor passes to Piece.__init__ and its first position.
PieceTable ==
    << [symbol |-> "P", start |-> Sq(0, 1)], [symbol |-> "p", start |-> Sq(0, 6)],
       [symbol |-> "P", start |-> Sq(1, 1)], [symbol |-> "p", start |-> Sq(1, 6)],
       [symbol |-> "P", start |-> Sq(2, 1)], [symbol |-> "p", start |-> Sq(2, 6)],
       [symbol |-> "P", start |-> Sq(3, 1)], [symbol |-> "p", start |-> Sq(3, 6)],
       [symbol |-> "P", start |-> Sq(4, 1)], [symbol |-> "p", start |-> Sq(4, 6)],
       [symbol |-> "P", start |-> Sq(5, 1)], [symbol |-> "p", start |-> Sq(5, 6)],
       [symbol |-> "P", start |-> Sq(6, 1)], [symbol |-> "p", start |-> Sq(6, 6)],
       [symbol |-> "P", start |-> Sq(7, 1)], [symbol |-> "p", start |-> Sq(7, 6)],
       [symbol |-> "R", start |-> Sq(0, 0)], [symbol |-> "R", start |-> Sq(7, 0)],
       [symbol |-> "r", start |-> Sq(0, 7)], [symbol |-> "r", start |-> Sq(7, 7)],
       [symbol |-> "N", start |-> Sq(1, 0)], [symbol |-> "N", start |-> Sq(6, 0)],
       [symbol |-> "n", start |-> Sq(1, 7)], [symbol |-> "n", start |-> Sq(6, 7)],
       [symbol |-> "B", start |-> Sq(2, 0)], [symbol |-> "B", start |-> Sq(5, 0)],
       [symbol |-> "b", start |-> Sq(2, 7)], [symbol |-> "b", start |-> Sq(5, 7)],
       [symbol |-> "Q", start |-> Sq(3, 0)], [symbol |-> "q", start |-> Sq(3, 7)],
       [symbol |-> "k", start |-> Sq(4, 7)], [symbol |-> "K", start |-> Sq(4, 0)] >>

PieceIds == DOMAIN PieceTable

\* Piece.get_symbol
get_symbol(p) == PieceTable[p].symbol

\* piece.get_symbol().upper(): the class of the piece (Pawn "P", Rook "R", ...)
PieceKind ==
    [p \in PieceIds |->
        CASE PieceTable[p].symbol \in {"P", "p"} -> "P"
          [] PieceTable[p].symbol \in {"R", "r"} -> "R"
          [] PieceTable[p].symbol \in {"N", "n"} -> "N"
          [] PieceTable[p].symbol \in {"B", "b"} -> "B"
          [] PieceTable[p].symbol \in {"Q", "q"} -> "Q"
          [] PieceTable[p].symbol \in {"K", "k"} -> "K"]

\* Piece.get_color: the subclass constructors give uppercase symbols to White
get_color(p) ==
    IF PieceTable[p].symbol \in {"P", "R", "N", "B", "Q", "K"} THEN White ELSE Black

\* 0 <= x <= 7 and 0 <= y <= 7
OnBoard(x, y) == x >= 0 /\ x <= 7 /\ y >= 0 /\ y <= 7

\* `x in list` for a Python list modelled as a sequence
InSeq(x, s) == \E i \in 1..Len(s) : s[i] = x

\* ------------------------------------------------------- piece movement

\* directions of Rook.get_moves and of Bishop.get_moves
RookDirections == << <<0, 1>>, <<0, -1>>, <<1, 0>>, <<-1, 0>> >>
BishopDirections == << <<1, 1>>, <<1, -1>>, <<-1, 1>>, <<-1, -1>> >>

\* The inner loop of the sliders with an own piece appended like an enemy
RECURSIVE RayOntoOwn(_, _, _, _, _)
RayOntoOwn(grid, color, pos, direction, i) ==
    LET nx == pos[1] + i * direction[1]
        ny == pos[2] + i * direction[2]
    IN  IF i > 7 \/ ~OnBoard(nx, ny) THEN <<>>
        ELSE IF grid[Sq(nx, ny)] = NoPiece
        THEN << Sq(nx, ny) >> \o RayOntoOwn(grid, color, pos, direction, i + 1)
        ELSE << Sq(nx, ny) >>

\* The inner loop of Rook.get_moves / Bishop.get_moves along one direction,
\* from step i on: for i in range(1, 8): break off the board; at an occupant
\* append it if it is an enemy and break; else append the empty square.
RECURSIVE Ray(_, _, _, _, _)
Ray(grid, color, pos, direction, i) ==
    LET nx == pos[1] + i * direction[1]
        ny == pos[2] + i * direction[2]
    IN  IF i > 7 \/ ~OnBoard(nx, ny) THEN <<>>
        ELSE IF grid[Sq(nx, ny)] = NoPiece
        THEN << Sq(nx, ny) >> \o Ray(grid, color, pos, direction, i + 1)
        ELSE IF get_color(grid[Sq(nx, ny)]) # color THEN << Sq(nx, ny) >>
        ELSE <<>>

\* The outer loop `for dx, dy in directions`, from the d-th direction on
RECURSIVE Slide(_, _, _, _, _)
Slide(grid, color, pos, directions, d) ==
    IF d > Len(directions) THEN <<>>
    ELSE Ray(grid, color, pos, directions[d], 1) \o Slide(grid, color, pos, directions, d + 1)

\* Rook.get_moves
Rook_get_moves(grid, color, pos) == Slide(grid, color, pos, RookDirections, 1)

\* Bishop.get_moves
Bishop_get_moves(grid, color, pos) == Slide(grid, color, pos, BishopDirections, 1)

\* Queen.get_moves: Rook.get_moves(self, grid) + Bishop.get_moves(self, grid)
Queen_get_moves(grid, color, pos) ==
    Rook_get_moves(grid, color, pos) \o Bishop_get_moves(grid, color, pos)

\* The offsets of Knight.get_moves, in the order of potential_moves
KnightOffsets ==
    << <<1, 2>>, <<-1, 2>>, <<1, -2>>, <<-1, -2>>, <<2, 1>>, <<-2, 1>>, <<2, -1>>, <<-2, -1>> >>

\* The offsets of King.get_moves: for dx in [-1,0,1]: for dy in [-1,0,1], (0,0) skipped
KingOffsets ==
    << <<-1, -1>>, <<-1, 0>>, <<-1, 1>>, <<0, -1>>, <<0, 1>>, <<1, -1>>, <<1, 0>>, <<1, 1>> >>

\* The common loop of Knight.get_moves and King.get_moves: a target square is
\* kept when it is on the board and is empty or holds a piece of the other color.
Steps(grid, color, pos, offsets) ==
    SelectSeq([k \in 1..Len(offsets) |-> << pos[1] + offsets[k][1], pos[2] + offsets[k][2] >>],
              LAMBDA t : /\ OnBoard(t[1], t[2])
                         /\ \/ grid[t] = NoPiece
                            \/ get_color(grid[t]) # color)

\* Knight.get_moves
Knight_get_moves(grid, color, pos) == Steps(grid, color, pos, KnightOffsets)

\* King.get_moves
King_get_moves(grid, color, pos) == Steps(grid, color, pos, KingOffsets)

\* Pawn.get_moves without the double step from the start row
PawnSingleStepOnly(grid, color, pos) ==
    LET x == pos[1]
        y == pos[2]
        direction == IF color = White THEN 1 ELSE -1
        cap(dx) == IF /\ OnBoard(x + dx, y + direction)
                      /\ grid[Sq(x + dx, y + direction)] # NoPiece
                      /\ get_color(grid[Sq(x + dx, y + direction)]) # color
                   THEN << Sq(x + dx, y + direction) >> ELSE <<>>
    IN  (IF y + direction >= 0 /\ y + direction <= 7 /\ grid[Sq(x, y + direction)] = NoPiece
         THEN << Sq(x, y + direction) >>
         ELSE <<>>)
        \o cap(-1) \o cap(1)

\* Pawn.get_moves without the captures
PawnNoCaptures(grid, color, pos) ==
    LET x == pos[1]
        y == pos[2]
        direction == IF color = White THEN 1 ELSE -1
        start_row == IF color = White THEN 1 ELSE 6
    IN  IF y + direction >= 0 /\ y + direction <= 7 /\ grid[Sq(x, y + direction)] = NoPiece
        THEN << Sq(x, y + direction) >>
             \o (IF y = start_row /\ grid[Sq(x, y + 2 * direction)] = NoPiece
                 THEN << Sq(x, y + 2 * direction) >> ELSE <<>>)
        ELSE <<>>

\* Pawn.get_moves
Pawn_get_moves(grid, color, pos) ==
    LET x == pos[1]
        y == pos[2]
        direction == IF color = White THEN 1 ELSE -1
        start_row == IF color = White THEN 1 ELSE 6
        cap(dx) == IF /\ OnBoard(x + dx, y + direction)
                      /\ grid[Sq(x + dx, y + direction)] # NoPiece
                      /\ get_color(grid[Sq(x + dx, y + direction)]) # color
                   THEN << Sq(x + dx, y + direction) >> ELSE <<>>
    IN  (IF y + direction >= 0 /\ y + direction <= 7 /\ grid[Sq(x, y + direction)] = NoPiece
         THEN << Sq(x, y + direction) >>
              \o (IF y = start_row /\ grid[Sq(x, y + 2 * direction)] = NoPiece
                  THEN << Sq(x, y + 2 * direction) >> ELSE <<>>)
         ELSE <<>>)
        \o cap(-1) \o cap(1)

\* piece.get_moves(grid): dispatch on the class of the piece; the piece reads
\* its own `position` field (x, y = self.position), not the slot it is held in.
get_moves(b, p) ==
    CASE PieceKind[p] = "P" -> Pawn_get_moves(b.grid, get_color(p), b.position[p])
      [] PieceKind[p] = "R" -> Rook_get_moves(b.grid, get_color(p), b.position[p])
      [] PieceKind[p] = "N" -> Knight_get_moves(b.grid, get_color(p), b.position[p])
      [] PieceKind[p] = "B" -> Bishop_get_moves(b.grid, get_color(p), b.position[p])
      [] PieceKind[p] = "Q" -> Queen_get_moves(b.grid, get_color(p), b.position[p])
      [] PieceKind[p] = "K" -> King_get_moves(b.grid, get_color(p), b.position[p])

\* ------------------------------------------------------------ attacks

\* isinstance(piece, cls) without the test of the color
IsPieceOfAnyColor(grid, x, y, kinds, color) ==
    /\ OnBoard(x, y)
    /\ grid[Sq(x, y)] # NoPiece
    /\ PieceKind[grid[Sq(x, y)]] \in kinds

\* isinstance(piece, cls) and piece.color == attacking_color, on a grid slot
IsPieceOf(grid, x, y, kinds, color) ==
    /\ OnBoard(x, y)
    /\ grid[Sq(x, y)] # NoPiece
    /\ PieceKind[grid[Sq(x, y)]] \in kinds
    /\ get_color(grid[Sq(x, y)]) = color

\* One direction of the sliding / king part of Board.is_square_attacked_by:
\* walk from the target, stop at the first occupant and test it.
RECURSIVE RayAttack(_, _, _, _, _, _, _)
RayAttack(grid, attacking_color, tx, ty, dx, dy, i) ==
    IF i > 7 THEN FALSE
    ELSE LET sx == tx + i * dx
             sy == ty + i * dy
         IN  IF ~OnBoard(sx, sy) THEN FALSE
             ELSE LET piece == grid[Sq(sx, sy)]
                  IN  IF piece # NoPiece
                      THEN /\ get_color(piece) = attacking_color
                           /\ IF dx # 0 /\ dy # 0
                              THEN \/ PieceKind[piece] \in {"B", "Q"}
                                   \/ (i = 1 /\ PieceKind[piece] = "K")
                              ELSE \/ PieceKind[piece] \in {"R", "Q"}
                                   \/ (i = 1 /\ PieceKind[piece] = "K")
                      ELSE RayAttack(grid, attacking_color, tx, ty, dx, dy, i + 1)

\* Board.is_square_attacked_by with the diagonal directions left out of the
\* sliding / king loop
AttackedOrthogonallyOnly(b, pos, attacking_color) ==
    LET grid == b.grid
        tx == pos[1]
        ty == pos[2]
        pawn_direction == IF attacking_color = White THEN -1 ELSE 1
    IN  \/ \E dx \in {-1, 1} :
              IsPieceOf(grid, tx + dx, ty + pawn_direction, {"P"}, attacking_color)
        \/ \E k \in 1..Len(KnightOffsets) :
              IsPieceOf(grid, tx + KnightOffsets[k][1], ty + KnightOffsets[k][2],
                        {"N"}, attacking_color)
        \/ \E k \in 1..Len(RookDirections) :
              RayAttack(grid, attacking_color, tx, ty,
                        RookDirections[k][1], RookDirections[k][2], 1)

\* Board.is_square_attacked_by
is_square_attacked_by(b, pos, attacking_color) ==
    LET grid == b.grid
        tx == pos[1]
        ty == pos[2]
        pawn_direction == IF attacking_color = White THEN -1 ELSE 1
    IN  \/ \E dx \in {-1, 1} :
              IsPieceOf(grid, tx + dx, ty + pawn_direction, {"P"}, attacking_color)
        \/ \E k \in 1..Len(KnightOffsets) :
              IsPieceOf(grid, tx + KnightOffsets[k][1], ty + KnightOffsets[k][2],
                        {"N"}, attacking_color)
        \/ \E k \in 1..Len(KingOffsets) :
              RayAttack(grid, attacking_color, tx, ty, KingOffsets[k][1], KingOffsets[k][2], 1)

\* is_color_in_check looking at the king of the other color
OtherColorInCheck(b, color) ==
    \E s \in Squares :
        /\ b.grid[s] # NoPiece
        /\ PieceKind[b.grid[s]] = "K"
        /\ get_color(b.grid[s]) = Opposite(color)
        /\ is_square_attacked_by(b, s, color)

\* Board.is_color_in_check: true when a king of `color` found by the scan is attacked
is_color_in_check(b, color) ==
    \E s \in Squares :
        /\ b.grid[s] # NoPiece
        /\ PieceKind[b.grid[s]] = "K"
        /\ get_color(b.grid[s]) = color
        /\ is_square_attacked_by(b, s, Opposite(color))

\* The king position the scan of Board.is_check ends with for `color`: with
\* several kings the last one scanned (largest col, then row); <<>> for None.
LastKing(b, color) ==
    LET ks == {s \in Squares : /\ b.grid[s] # NoPiece
                               /\ PieceKind[b.grid[s]] = "K"
                               /\ get_color(b.grid[s]) = color}
    IN  IF ks = {} THEN <<>>
        ELSE << CHOOSE s \in ks : \A t \in ks : t[1] < s[1] \/ (t[1] = s[1] /\ t[2] <= s[2]) >>

\* The tests of Board.is_check on the two king positions found: White first
CheckedColor(b, white_king_pos, black_king_pos) ==
    IF white_king_pos # <<>> /\ is_square_attacked_by(b, white_king_pos[1], Black) THEN White
    ELSE IF black_king_pos # <<>> /\ is_square_attacked_by(b, black_king_pos[1], White) THEN Black
    ELSE None

\* Board.is_check
is_check(b) == CheckedColor(b, LastKing(b, White), LastKing(b, Black))

\* ------------------------------------------------------------- notation

FileLetters == << "a", "b", "c", "d", "e", "f", "g", "h" >>
RankDigits == << "1", "2", "3", "4", "5", "6", "7", "8" >>

\* pos_to_algebraic with the digit of the rank written first
PosToAlgebraicRankFirst(pos) == << RankDigits[pos[2] + 1], FileLetters[pos[1] + 1] >>

\* Piece.pos_to_algebraic: f"{chr(col + ord('a'))}{row + 1}", as its two characters
pos_to_algebraic(pos) == << FileLetters[pos[1] + 1], RankDigits[pos[2] + 1] >>

\* str(empty_count) for the counts 1..8 a rank can hold
CountStr(n) == RankDigits[n]

\* One rank of Board.get_position_hash: the columns from `col` on, with the
\* count of empty squares seen since the last piece.
RECURSIVE RowStr(_, _, _, _)
RowStr(grid, row, col, empty_count) ==
    IF col > 7
    THEN IF empty_count > 0 THEN << CountStr(empty_count) >> ELSE <<>>
    ELSE LET piece == grid[Sq(col, row)]
         IN  IF piece # NoPiece
             THEN (IF empty_count > 0 THEN << CountStr(empty_count) >> ELSE <<>>)
                  \o << get_symbol(piece) >> \o RowStr(grid, row, col + 1, 0)
             ELSE RowStr(grid, row, col + 1, empty_count + 1)

\* "/".join(parts) for the ranks from `row` down to 0
RECURSIVE JoinRows(_, _)
JoinRows(grid, row) ==
    IF row = 0 THEN RowStr(grid, 0, 0, 0)
    ELSE RowStr(grid, row, 0, 0) \o << "/" >> \o JoinRows(grid, row - 1)

\* Board.get_position_hash without the side to move
HashWithoutTurn(b, turn) == JoinRows(b.grid, 7)

\* Board.get_position_hash: the string, as the sequence of its characters,
\* ending with turn.value[0]
get_position_hash(b, turn) ==
    JoinRows(b.grid, 7) \o << " ", IF turn = White THEN "w" ELSE "b" >>

\* position_history[pos_hash] = position_history.get(pos_hash, 0) + 1
Recorded(b, pos_hash) ==
    [b EXCEPT !.position_history =
        [h \in DOMAIN b.position_history \cup {pos_hash} |->
            IF h \in DOMAIN b.position_history
            THEN IF h = pos_hash THEN b.position_history[h] + 1 ELSE b.position_history[h]
            ELSE 1]]

\* Board.record_position
record_position(b, turn) == Recorded(b, get_position_hash(b, turn))

\* ---------------------------------------------------------------- board

\* Board.__init__ and Board.setup_board: the grid is filled with the 32 new
\* pieces, each constructed with the position of its slot, and the initial
\* position is recorded with White to move.
StandardGrid ==
    [s \in Squares |->
        IF \E p \in PieceIds : PieceTable[p].start = s
        THEN CHOOSE p \in PieceIds : PieceTable[p].start = s
        ELSE NoPiece]

NewBoard ==
    record_position([grid |-> StandardGrid,
                     position |-> [p \in PieceIds |-> PieceTable[p].start],
                     moveHistory |-> <<>>,
                     position_history |-> <<>>], White)

\* The speculative step without `grid[start] = None`
SimulateKeepsStart(b, piece, start_pos, end_pos) ==
    [b EXCEPT !.grid = [@ EXCEPT ![end_pos] = piece],
              !.position = [@ EXCEPT ![piece] = end_pos]]

\* The speculative step with the occupant of the destination put on the start
\* square instead of being dropped
SimulateSwaps(b, piece, start_pos, end_pos) ==
    [b EXCEPT !.grid = [@ EXCEPT ![end_pos] = piece, ![start_pos] = b.grid[end_pos]],
              !.position = [@ EXCEPT ![piece] = end_pos]]

\* The speculative step shared by move_piece, has_legal_move, get_all_legal_moves,
\* get_possible_moves and minmax: grid[end] = piece; grid[start] = None;
\* piece.set_position(end)
Simulate(b, piece, start_pos, end_pos) ==
    [b EXCEPT !.grid = [@ EXCEPT ![end_pos] = piece, ![start_pos] = NoPiece],
              !.position = [@ EXCEPT ![piece] = end_pos]]

\* The undo without `grid[end] = captured`
UndoDropsCaptured(b, piece, start_pos, end_pos, captured, original_pos) ==
    [b EXCEPT !.grid = [@ EXCEPT ![start_pos] = piece, ![end_pos] = NoPiece],
              !.position = [@ EXCEPT ![piece] = original_pos]]

\* The undo of the speculative step: grid[start] = piece; grid[end] = captured;
\* piece.set_position(original_pos)
Undo(b, piece, start_pos, end_pos, captured, original_pos) ==
    [b EXCEPT !.grid = [@ EXCEPT ![start_pos] = piece, ![end_pos] = captured],
              !.position = [@ EXCEPT ![piece] = original_pos]]

\* Board.move_piece after the temporary move, failing without the undo
FinishMoveNoRevert(piece, current_pos, new_pos, captured_piece, original_pos, moved) ==
    IF is_color_in_check(moved, get_color(piece))
    THEN [ok |-> FALSE, board |-> moved]
    ELSE [ok |-> TRUE,
          board |-> [moved EXCEPT !.moveHistory =
                        Append(@, << pos_to_algebraic(current_pos),
                                     pos_to_algebraic(new_pos) >>)]]

\* Board.move_piece after the temporary move, without the test of the king
FinishMoveAlwaysOk(piece, current_pos, new_pos, captured_piece, original_pos, moved) ==
    [ok |-> TRUE,
     board |-> [moved EXCEPT !.moveHistory =
                   Append(@, << pos_to_algebraic(current_pos),
                                pos_to_algebraic(new_pos) >>)]]

\* Board.move_piece after the temporary move, without the append to moveHistory
FinishMoveNoLog(piece, current_pos, new_pos, captured_piece, original_pos, moved) ==
    IF is_color_in_check(moved, get_color(piece))
    THEN [ok |-> FALSE,
          board |-> Undo(moved, piece, current_pos, new_pos, captured_piece, original_pos)]
    ELSE [ok |-> TRUE, board |-> moved]

\* Board.move_piece after the temporary move: undo it and fail when the mover's
\* king is attacked, else append the move to moveHistory
FinishMove(piece, current_pos, new_pos, captured_piece, original_pos, moved) ==
    IF is_color_in_check(moved, get_color(piece))
    THEN [ok |-> FALSE,
          board |-> Undo(moved, piece, current_pos, new_pos, captured_piece, original_pos)]
    ELSE [ok |-> TRUE,
          board |-> [moved EXCEPT !.moveHistory =
                        Append(@, << pos_to_algebraic(current_pos),
                                     pos_to_algebraic(new_pos) >>)]]

\* Board.move_piece: the result and the board the call leaves behind
move_piece(b, current_pos, new_pos) ==
    IF b.grid[current_pos] = NoPiece \/ ~InSeq(new_pos, get_moves(b, b.grid[current_pos]))
    THEN [ok |-> FALSE, board |-> b]
    ELSE FinishMove(b.grid[current_pos], current_pos, new_pos, b.grid[new_pos],
                    b.position[b.grid[current_pos]],
                    Simulate(b, b.grid[current_pos], current_pos, new_pos))

\* The squares in the scan order of `for col in range(8): for row in range(8)`
ScanOrder == [i \in 1..64 |-> Sq((i - 1) \div 8, (i - 1) % 8)]

\* The next slot at or after the i-th of the scan that passes the test
\* `piece and piece.color == color`; 65 when the scan is over
NextOwn(b, color, i) ==
    LET own == {j \in i..64 : /\ b.grid[ScanOrder[j]] # NoPiece
                              /\ get_color(b.grid[ScanOrder[j]]) = color}
    IN  IF own = {} THEN 65 ELSE CHOOSE j \in own : \A m \in own : j <= m

\* The inner loop of Board.get_all_legal_moves over the pseudo-legal
\* destinations `ends` of `piece` from the k-th on: simulate, test the king of
\* `color`, undo.  The result is the list built and the board left behind.
RECURSIVE LegalFrom(_, _, _, _, _, _, _)
LegalFrom(b, color, start_pos, piece, ends, k, legal_moves) ==
    IF k > Len(ends) THEN [moves |-> legal_moves, board |-> b]
    ELSE LegalFrom(Undo(Simulate(b, piece, start_pos, ends[k]), piece, start_pos, ends[k],
                        b.grid[ends[k]], b.position[piece]),
                   color, start_pos, piece, ends, k + 1,
                   IF ~is_color_in_check(Simulate(b, piece, start_pos, ends[k]), color)
                   THEN Append(legal_moves, << start_pos, ends[k] >>)
                   ELSE legal_moves)

\* The scan of Board.get_all_legal_moves from the slot i of a piece of `color` on
RECURSIVE LegalScan(_, _, _, _)
LegalScan(b, color, i, legal_moves) ==
    IF i > 64 THEN [moves |-> legal_moves, board |-> b]
    ELSE LET scanned == LegalFrom(b, color, ScanOrder[i], b.grid[ScanOrder[i]],
                                  get_moves(b, b.grid[ScanOrder[i]]), 1, legal_moves)
         IN  LegalScan(scanned.board, color, NextOwn(scanned.board, color, i + 1),
                       scanned.moves)

\* Board.get_all_legal_moves: the list returned and the board left behind
AllLegalMoves(b, color) == LegalScan(b, color, NextOwn(b, color, 1), <<>>)

\* Board.get_all_legal_moves: the list returned
get_all_legal_moves(b, color) == AllLegalMoves(b, color).moves

\* The inner loop of Board.has_legal_move: every simulation is undone before
\* still_in_check is tested, and the first destination that leaves the king of
\* `color` unattacked returns True.
RECURSIVE HasLegalFrom(_, _, _, _, _, _)
HasLegalFrom(b, color, start_pos, piece, ends, k) ==
    IF k > Len(ends) THEN [found |-> FALSE, board |-> b]
    ELSE IF ~is_color_in_check(Simulate(b, piece, start_pos, ends[k]), color)
    THEN [found |-> TRUE,
          board |-> Undo(Simulate(b, piece, start_pos, ends[k]), piece, start_pos, ends[k],
                         b.grid[ends[k]], b.position[piece])]
    ELSE HasLegalFrom(Undo(Simulate(b, piece, start_pos, ends[k]), piece, start_pos, ends[k],
                           b.grid[ends[k]], b.position[piece]),
                      color, start_pos, piece, ends, k + 1)

\* The scan of Board.has_legal_move from the slot i of a piece of `color` on
RECURSIVE HasLegalScan(_, _, _)
HasLegalScan(b, color, i) ==
    IF i > 64 THEN [found |-> FALSE, board |-> b]
    ELSE LET scanned == HasLegalFrom(b, color, ScanOrder[i], b.grid[ScanOrder[i]],
                                     get_moves(b, b.grid[ScanOrder[i]]), 1)
         IN  IF scanned.found THEN scanned
             ELSE HasLegalScan(scanned.board, color, NextOwn(scanned.board, color, i + 1))

\* Board.has_legal_move: the value returned and the board left behind
HasLegalMove(b, color) == HasLegalScan(b, color, NextOwn(b, color, 1))

\* Board.has_legal_move without the test of the king after the simulated move
HasPseudoLegalMove(b, color) ==
    \E sq \in Squares : /\ b.grid[sq] # NoPiece
                         /\ get_color(b.grid[sq]) = color
                         /\ get_moves(b, b.grid[sq]) # <<>>

\* Board.has_legal_move: the value returned
has_legal_move(b, color) == HasLegalMove(b, color).found

\* Board.is_checkmate without the search for a legal move
CheckmateOnAnyCheck(b, checked_color) == is_color_in_check(b, checked_color)

\* Board.is_checkmate
is_checkmate(b, checked_color) ==
    is_color_in_check(b, checked_color) /\ ~has_legal_move(b, checked_color)

\* ----------------------------------------------------------------- game

\* self.board = None
NoBoard == [grid |-> <<>>, position |-> <<>>, moveHistory |-> <<>>, position_history |-> <<>>]

\* self.ai_player = None
NoAI == [difficulty |-> None, color |-> None]

\* A Python value passed as game_mode: a member of the enum GameMode, or the
\* plain string of a JSON payload.  Enum members (GameMode derives from Enum
\* only) compare unequal to every string.
EnumMode(v) == [type |-> "GameMode", value |-> v]
StrMode(v) == [type |-> "str", value |-> v]
NoMode == [type |-> "NoneType", value |-> None]
PLAYER_VS_PLAYER == EnumMode("player_vs_player")
PLAYER_VS_AI == EnumMode("player_vs_ai")

\* Game.__init__
NewGame ==
    [board |-> NoBoard, turn |-> White, game_status |-> "not_started", winner |-> None,
     difficulty |-> None, player_white |-> "", player_black |-> "",
     ai_player |-> NoAI, game_mode |-> NoMode]

\* AIPlayer.__init__
AIPlayer(difficulty, color) == [difficulty |-> difficulty, color |-> color]

\* Game.start_game without `self.winner = None`
StartGameKeepsWinner(g, difficulty, white_player, black_player, game_mode) ==
    [g EXCEPT !.board = NewBoard, !.turn = White, !.game_status = "active",
              !.difficulty = difficulty,
              !.player_white = white_player, !.player_black = black_player,
              !.game_mode = game_mode,
              !.ai_player = IF game_mode = PLAYER_VS_AI
                            THEN AIPlayer(difficulty, Black) ELSE @]

\* Game.start_game
Game_start_game(g, difficulty, white_player, black_player, game_mode) ==
    [g EXCEPT !.board = NewBoard, !.turn = White, !.game_status = "active",
              !.winner = None, !.difficulty = difficulty,
              !.player_white = white_player, !.player_black = black_player,
              !.game_mode = game_mode,
              !.ai_player = IF game_mode = PLAYER_VS_AI
                            THEN AIPlayer(difficulty, Black) ELSE @]

\* Game.end_game without `self.ai_player = None`
EndGameKeepsAgent(g) == [NewGame EXCEPT !.ai_player = g.ai_player]

\* Game.end_game
Game_end_game(g) == NewGame

\* check_game_end_conditions with a draw declared once a position has been
\* recorded three times
EndConditionsDrawOnRepetition(g, checked_color) ==
    IF checked_color # None /\ is_checkmate(g.board, checked_color)
    THEN [g EXCEPT !.game_status = "checkmate", !.winner = Opposite(checked_color)]
    ELSE IF \E h \in DOMAIN g.board.position_history : g.board.position_history[h] >= 3
    THEN [g EXCEPT !.game_status = "draw"]
    ELSE [g EXCEPT !.game_status = "active"]

\* Game.check_game_end_conditions once is_check has returned checked_color
EndConditions(g, checked_color) ==
    IF checked_color # None /\ is_checkmate(g.board, checked_color)
    THEN [g EXCEPT !.game_status = "checkmate", !.winner = Opposite(checked_color)]
    ELSE [g EXCEPT !.game_status = "active"]

\* Game.check_game_end_conditions
check_game_end_conditions(g) == EndConditions(g, is_check(g.board))

\* The end of Game.make_move with the position recorded for the side that moved
SwitchTurnRecordsMover(g) ==
    IF g.game_status = "active"
    THEN [g EXCEPT !.turn = Opposite(g.turn),
                   !.board = record_position(g.board, g.turn)]
    ELSE g

\* The end of Game.make_move without the test of the status
SwitchTurnAlways(g) ==
    [g EXCEPT !.turn = Opposite(g.turn),
              !.board = record_position(g.board, Opposite(g.turn))]

\* The end of Game.make_move: if the game is still active, switch turns and
\* record the position
SwitchTurn(g) ==
    IF g.game_status = "active"
    THEN [g EXCEPT !.turn = Opposite(g.turn),
                   !.board = record_position(g.board, Opposite(g.turn))]
    ELSE g

\* Game.make_move once Board.move_piece has returned `moved`
MoveOutcome(g, moved) ==
    IF ~moved.ok
    THEN IF is_color_in_check(moved.board, g.turn)
         THEN [game |-> [g EXCEPT !.board = moved.board], ok |-> FALSE,
               msg |-> << "Invalid move: your king would be in check." >>]
         ELSE [game |-> [g EXCEPT !.board = moved.board], ok |-> FALSE,
               msg |-> << "Invalid move for this piece." >>]
    ELSE [game |-> SwitchTurn(check_game_end_conditions([g EXCEPT !.board = moved.board])),
          ok |-> TRUE, msg |-> << "Move successful." >>]

\* Game.make_move without the test of the piece's color against the turn
MakeMoveAnyColor(g, current_pos, new_pos) ==
    IF g.game_status # "active"
    THEN [game |-> g, ok |-> FALSE, msg |-> << "Game is not active. Status: ", g.game_status >>]
    ELSE IF g.board.grid[current_pos] = NoPiece
    THEN [game |-> g, ok |-> FALSE, msg |-> << "No piece at the starting position." >>]
    ELSE MoveOutcome(g, move_piece(g.board, current_pos, new_pos))

\* Game.make_move: the game after the call and the (success, message) returned
Game_make_move(g, current_pos, new_pos) ==
    IF g.game_status # "active"
    THEN [game |-> g, ok |-> FALSE, msg |-> << "Game is not active. Status: ", g.game_status >>]
    ELSE IF g.board.grid[current_pos] = NoPiece
    THEN [game |-> g, ok |-> FALSE, msg |-> << "No piece at the starting position." >>]
    ELSE IF get_color(g.board.grid[current_pos]) # g.turn
    THEN [game |-> g, ok |-> FALSE,
          msg |-> << "It's ", g.turn, "'s turn, not ",
                     get_color(g.board.grid[current_pos]), "'s." >>]
    ELSE MoveOutcome(g, move_piece(g.board, current_pos, new_pos))

\* The end of Game.get_possible_moves: the destinations in algebraic notation
PossibleMoves(g, scanned) ==
    [moves |-> [i \in 1..Len(scanned.moves) |-> pos_to_algebraic(scanned.moves[i][2])],
     game |-> [g EXCEPT !.board = scanned.board]]

\* Game.get_possible_moves: the list returned and the game left behind.  The
\* loop over the pseudo-legal destinations is that of get_all_legal_moves for
\* the one piece on `pos`.
Game_get_possible_moves(g, pos) ==
    IF g.board = NoBoard \/ g.game_status # "active"
    THEN [moves |-> <<>>, game |-> g]
    ELSE IF g.board.grid[pos] = NoPiece \/ get_color(g.board.grid[pos]) # g.turn
    THEN [moves |-> <<>>, game |-> g]
    ELSE PossibleMoves(g, LegalFrom(g.board, g.turn, pos, g.board.grid[pos],
                                    get_moves(g.board, g.board.grid[pos]), 1, <<>>))

\* ------------------------------------------------------------------- ai

\* float("inf"): a score above every value evaluate_board can return
Infinity == 1000000

\* AIPlayer.PIECE_VALUES
PIECE_VALUES == [P |-> 100, N |-> 320, B |-> 330, R |-> 500, Q |-> 900, K |-> 20000]

\* AIPlayer.PAWN_TABLE .. QUEEN_TABLE, indexed [row + 1][col + 1]
PAWN_TABLE ==
    << << 0, 0, 0, 0, 0, 0, 0, 0 >>,
       << 5, 10, 10, -20, -20, 10, 10, 5 >>,
       << 5, -5, -10, 0, 0, -10, -5, 5 >>,
       << 0, 0, 0, 20, 20, 0, 0, 0 >>,
       << 5, 5, 10, 25, 25, 10, 5, 5 >>,
       << 10, 10, 20, 30, 30, 20, 10, 10 >>,
       << 50, 50, 50, 50, 50, 50, 50, 50 >>,
       << 0, 0, 0, 0, 0, 0, 0, 0 >> >>

KNIGHT_TABLE ==
    << << -50, -40, -30, -30, -30, -30, -40, -50 >>,
       << -40, -20, 0, 5, 5, 0, -20, -40 >>,
       << -30, 0, 10, 15, 15, 10, 0, -30 >>,
       << -30, 5, 15, 20, 20, 15, 5, -30 >>,
       << -30, 0, 15, 20, 20, 15, 0, -30 >>,
       << -30, 5, 10, 15, 15, 10, 5, -30 >>,
       << -40, -20, 0, 0, 0, 0, -20, -40 >>,
       << -50, -40, -30, -30, -30, -30, -40, -50 >> >>

BISHOP_TABLE ==
    << << -20, -10, -10, -10, -10, -10, -10, -20 >>,
       << -10, 5, 0, 0, 0, 0, 5, -10 >>,
       << -10, 10, 10, 10, 10, 10, 10, -10 >>,
       << -10, 0, 10, 10, 10, 10, 0, -10 >>,
       << -10, 5, 5, 10, 10, 5, 5, -10 >>,
       << -10, 0, 5, 10, 10, 5, 0, -10 >>,
       << -10, 0, 0, 0, 0, 0, 0, -10 >>,
       << -20, -10, -10, -10, -10, -10, -10, -20 >> >>

ROOK_TABLE ==
    << << 0, 0, 0, 5, 5, 0, 0, 0 >>,
       << -5, 0, 0, 0, 0, 0, 0, -5 >>,
       << -5, 0, 0, 0, 0, 0, 0, -5 >>,
       << -5, 0, 0, 0, 0, 0, 0, -5 >>,
       << -5, 0, 0, 0, 0, 0, 0, -5 >>,
       << -5, 0, 0, 0, 0, 0, 0, -5 >>,
       << 5, 10, 10, 10, 10, 10, 10, 5 >>,
       << 0, 0, 0, 0, 0, 0, 0, 0 >> >>

QUEEN_TABLE ==
    << << -20, -10, -10, -5, -5, -10, -10, -20 >>,
       << -10, 0, 5, 0, 0, 0, 0, -10 >>,
       << -10, 5, 5, 5, 5, 5, 0, -10 >>,
       << 0, 0, 5, 5, 5, 5, 0, -5 >>,
       << -5, 0, 5, 5, 5, 5, 0, -5 >>,
       << -10, 0, 5, 5, 5, 5, 0, -10 >>,
       << -10, 0, 0, 0, 0, 0, 0, -10 >>,
       << -20, -10, -10, -5, -5, -10, -10, -20 >> >>

\* AIPlayer.POSITION_TABLES (the king has no table)
POSITION_TABLES ==
    [P |-> PAWN_TABLE, N |-> KNIGHT_TABLE, B |-> BISHOP_TABLE, R |-> ROOK_TABLE,
     Q |-> QUEEN_TABLE]

\* The score of a piece with Black reading the table row of its own rank
PieceScoreUnmirrored(piece, col, row) ==
    LET piece_type == PieceKind[piece]
    IN  PIECE_VALUES[piece_type]
        + (IF piece_type \in DOMAIN POSITION_TABLES
           THEN POSITION_TABLES[piece_type][row + 1][col + 1] ELSE 0)

\* The score of the piece on slot (col, row) in AIPlayer.evaluate_board:
\* material value plus the table entry of the slot, the row mirrored for Black
PieceScore(piece, col, row) ==
    LET piece_type == PieceKind[piece]
        positional_value ==
            IF piece_type \in DOMAIN POSITION_TABLES
            THEN IF get_color(piece) = White
                 THEN POSITION_TABLES[piece_type][row + 1][col + 1]
                 ELSE POSITION_TABLES[piece_type][(7 - row) + 1][col + 1]
            ELSE 0
    IN  PIECE_VALUES[piece_type] + positional_value

\* The signed value evaluate_board adds for one slot
SlotValue(b, color, pos) ==
    IF b.grid[pos] = NoPiece THEN 0
    ELSE IF get_color(b.grid[pos]) = color THEN PieceScore(b.grid[pos], pos[1], pos[2])
    ELSE 0 - PieceScore(b.grid[pos], pos[1], pos[2])

\* The inner loop of AIPlayer.evaluate_board, `for row in range(8)`
RECURSIVE ColumnValue(_, _, _, _)
ColumnValue(b, color, col, row) ==
    IF row > 7 THEN 0
    ELSE SlotValue(b, color, Sq(col, row)) + ColumnValue(b, color, col, row + 1)

\* The outer loop of AIPlayer.evaluate_board, `for col in range(8)`
RECURSIVE TotalValue(_, _, _)
TotalValue(b, color, col) ==
    IF col > 7 THEN 0
    ELSE ColumnValue(b, color, col, 0) + TotalValue(b, color, col + 1)

\* repetition_penalty as a flat 150 for a position seen before
RepetitionPenaltyFlat(b, position_hash) ==
    IF position_hash \in DOMAIN b.position_history /\ b.position_history[position_hash] > 0
    THEN 150
    ELSE 0

\* repetition_penalty of AIPlayer.evaluate_board: 150 * position_history.get(hash, 0)
RepetitionPenalty(b, position_hash) ==
    IF position_hash \in DOMAIN b.position_history /\ b.position_history[position_hash] > 0
    THEN 150 * b.position_history[position_hash]
    ELSE 0

\* AIPlayer.evaluate_board, for the agent of color `color`
evaluate_board(color, b, turn) ==
    TotalValue(b, color, 0) - RepetitionPenalty(b, get_position_hash(b, turn))

\* score_move of AIPlayer.minmax
score_move(b, move) ==
    IF b.grid[move[2]] # NoPiece
    THEN 10 * PIECE_VALUES[PieceKind[b.grid[move[2]]]] - PIECE_VALUES[PieceKind[b.grid[move[1]]]]
    ELSE 0

\* sorted(legal_moves, key=score_move, reverse=True): descending by key, moves
\* of equal key in their original order
RECURSIVE SortByKeys(_, _, _)
SortByKeys(b, moves, keys) ==
    IF keys = {} THEN <<>>
    ELSE LET top == CHOOSE k \in keys : \A j \in keys : j <= k
         IN  SelectSeq(moves, LAMBDA m : score_move(b, m) = top)
             \o SortByKeys(b, moves, keys \ {top})

sorted_moves(b, legal_moves) ==
    SortByKeys(b, legal_moves, { score_move(b, legal_moves[i]) : i \in 1..Len(legal_moves) })

\* AIPlayer.minmax.  SearchLoopFirstImprovement is the loop with the break
\* taken at the first move that improves on the best so far.  SearchLoop is the loop over sorted_moves from the k-th move
\* on, SearchNode is minmax once the legal moves are listed.  Each returns the
\* score, the move (<<>> for None) and the board as left behind; the undo of a
\* simulated move sets the piece's position to start_pos.
RECURSIVE minmax(_, _, _, _, _, _)
RECURSIVE SearchLoop(_, _, _, _, _, _, _, _, _, _)
SearchLoopFirstImprovement(color, b, moves, k, depth, alpha, beta, maximizing_player, best_eval, best_move) ==
    IF k > Len(moves) THEN [score |-> best_eval, move |-> best_move, board |-> b]
    ELSE LET sub == minmax(color, Simulate(b, b.grid[moves[k][1]], moves[k][1], moves[k][2]),
                           depth - 1, alpha, beta, ~maximizing_player)
             undone == Undo(sub.board, b.grid[moves[k][1]], moves[k][1], moves[k][2],
                            b.grid[moves[k][2]], moves[k][1])
             better == IF maximizing_player THEN sub.score > best_eval
                       ELSE sub.score < best_eval
             new_alpha == IF maximizing_player /\ sub.score > alpha THEN sub.score ELSE alpha
             new_beta == IF ~maximizing_player /\ sub.score < beta THEN sub.score ELSE beta
         IN  IF better
             THEN [score |-> sub.score, move |-> moves[k], board |-> undone]
             ELSE SearchLoop(color, undone, moves, k + 1, depth, new_alpha, new_beta,
                             maximizing_player, best_eval, best_move)

\* The loop of AIPlayer.minmax taking a move whose score equals the best so far
SearchLoopLastBest(color, b, moves, k, depth, alpha, beta, maximizing_player, best_eval, best_move) ==
    IF k > Len(moves) THEN [score |-> best_eval, move |-> best_move, board |-> b]
    ELSE LET sub == minmax(color, Simulate(b, b.grid[moves[k][1]], moves[k][1], moves[k][2]),
                           depth - 1, alpha, beta, ~maximizing_player)
             undone == Undo(sub.board, b.grid[moves[k][1]], moves[k][1], moves[k][2],
                            b.grid[moves[k][2]], moves[k][1])
             better == IF maximizing_player THEN sub.score >= best_eval
                       ELSE sub.score <= best_eval
             new_alpha == IF maximizing_player /\ sub.score > alpha THEN sub.score ELSE alpha
             new_beta == IF ~maximizing_player /\ sub.score < beta THEN sub.score ELSE beta
         IN  IF new_beta <= new_alpha
             THEN [score |-> IF better THEN sub.score ELSE best_eval,
                   move |-> IF better THEN moves[k] ELSE best_move,
                   board |-> undone]
             ELSE SearchLoop(color, undone, moves, k + 1, depth, new_alpha, new_beta,
                             maximizing_player,
                             IF better THEN sub.score ELSE best_eval,
                             IF better THEN moves[k] ELSE best_move)

SearchLoop(color, b, moves, k, depth, alpha, beta, maximizing_player, best_eval, best_move) ==
    IF k > Len(moves) THEN [score |-> best_eval, move |-> best_move, board |-> b]
    ELSE LET sub == minmax(color, Simulate(b, b.grid[moves[k][1]], moves[k][1], moves[k][2]),
                           depth - 1, alpha, beta, ~maximizing_player)
             undone == Undo(sub.board, b.grid[moves[k][1]], moves[k][1], moves[k][2],
                            b.grid[moves[k][2]], moves[k][1])
             better == IF maximizing_player THEN sub.score > best_eval
                       ELSE sub.score < best_eval
             new_alpha == IF maximizing_player /\ sub.score > alpha THEN sub.score ELSE alpha
             new_beta == IF ~maximizing_player /\ sub.score < beta THEN sub.score ELSE beta
         IN  IF new_beta <= new_alpha
             THEN [score |-> IF better THEN sub.score ELSE best_eval,
                   move |-> IF better THEN moves[k] ELSE best_move,
                   board |-> undone]
             ELSE SearchLoop(color, undone, moves, k + 1, depth, new_alpha, new_beta,
                             maximizing_player,
                             IF better THEN sub.score ELSE best_eval,
                             IF better THEN moves[k] ELSE best_move)

\* AIPlayer.minmax without `best_move = sorted_moves[0]`
SearchNodeNoDefault(color, depth, alpha, beta, maximizing_player, scan, sorted) ==
    IF scan.moves = <<>>
    THEN IF is_color_in_check(scan.board, IF maximizing_player THEN color ELSE Opposite(color))
         THEN [score |-> IF maximizing_player THEN 0 - Infinity ELSE Infinity,
               move |-> <<>>, board |-> scan.board]
         ELSE [score |-> 0, move |-> <<>>, board |-> scan.board]
    ELSE SearchLoop(color, scan.board, sorted, 1, depth, alpha, beta, maximizing_player,
                    IF maximizing_player THEN 0 - Infinity ELSE Infinity, <<>>)

\* AIPlayer.minmax after get_all_legal_moves returned `scan`
SearchNode(color, depth, alpha, beta, maximizing_player, scan, sorted) ==
    IF scan.moves = <<>>
    THEN IF is_color_in_check(scan.board, IF maximizing_player THEN color ELSE Opposite(color))
         THEN [score |-> IF maximizing_player THEN 0 - Infinity ELSE Infinity,
               move |-> <<>>, board |-> scan.board]
         ELSE [score |-> 0, move |-> <<>>, board |-> scan.board]
    ELSE SearchLoop(color, scan.board, sorted, 1, depth, alpha, beta, maximizing_player,
                    IF maximizing_player THEN 0 - Infinity ELSE Infinity, sorted[1])

\* AIPlayer.minmax listing the legal moves before it looks at the depth
MinmaxMovesFirst(color, b, depth, alpha, beta, maximizing_player) ==
    LET scan == AllLegalMoves(b, IF maximizing_player THEN color ELSE Opposite(color))
    IN  IF depth = 0 /\ scan.moves # <<>>
        THEN [score |-> evaluate_board(color, b, IF maximizing_player THEN color ELSE Opposite(color)),
              move |-> <<>>, board |-> b]
        ELSE SearchNode(color, depth, alpha, beta, maximizing_player, scan,
                        sorted_moves(scan.board, scan.moves))

minmax(color, b, depth, alpha, beta, maximizing_player) ==
    IF depth = 0
    THEN [score |-> evaluate_board(color, b, IF maximizing_player THEN color ELSE Opposite(color)),
          move |-> <<>>, board |-> b]
    ELSE LET scan == AllLegalMoves(b, IF maximizing_player THEN color ELSE Opposite(color))
         IN  SearchNode(color, depth, alpha, beta, maximizing_player, scan,
                        sorted_moves(scan.board, scan.moves))

\* The capture loop of AIPlayer.get_easy_move from the k-th legal move on
RECURSIVE BestCapture(_, _, _, _, _)

\* The capture loop keeping the first capture it meets
BestCaptureFirst(b, legal_moves, k, best_capture_score, best_move) ==
    IF k > Len(legal_moves) THEN best_move
    ELSE IF b.grid[legal_moves[k][2]] # NoPiece /\ best_move = <<>>
    THEN BestCapture(b, legal_moves, k + 1, PIECE_VALUES[PieceKind[b.grid[legal_moves[k][2]]]],
                     legal_moves[k])
    ELSE BestCapture(b, legal_moves, k + 1, best_capture_score, best_move)

BestCapture(b, legal_moves, k, best_capture_score, best_move) ==
    IF k > Len(legal_moves) THEN best_move
    ELSE IF /\ b.grid[legal_moves[k][2]] # NoPiece
            /\ PIECE_VALUES[PieceKind[b.grid[legal_moves[k][2]]]] > best_capture_score
    THEN BestCapture(b, legal_moves, k + 1, PIECE_VALUES[PieceKind[b.grid[legal_moves[k][2]]]],
                     legal_moves[k])
    ELSE BestCapture(b, legal_moves, k + 1, best_capture_score, best_move)

\* The end of get_easy_move as random.choice(legal_moves) in every case
EasyChoiceRandom(scan, best_move) ==
    { [move |-> scan.moves[i], board |-> scan.board] : i \in 1..Len(scan.moves) }

\* The end of AIPlayer.get_easy_move: the best capture if there is one,
\* else random.choice(legal_moves)
EasyChoice(scan, best_move) ==
    IF best_move # <<>> THEN { [move |-> best_move, board |-> scan.board] }
    ELSE { [move |-> scan.moves[i], board |-> scan.board] : i \in 1..Len(scan.moves) }

\* AIPlayer.get_easy_move once the legal moves are listed
EasyMove(scan) ==
    IF scan.moves = <<>> THEN { [move |-> <<>>, board |-> scan.board] }
    ELSE EasyChoice(scan, BestCapture(scan.board, scan.moves, 1, -1, <<>>))

\* AIPlayer.get_easy_move: the results the call can have, each the move
\* returned (<<>> is None) and the board left behind
get_easy_move(color, b) == EasyMove(AllLegalMoves(b, color))

\* minmax(...)[1] with the board left behind
SearchResult(found) == { [move |-> found.move, board |-> found.board] }

\* get_medium_move searching one ply
MediumMoveDepthOne(color, b) == SearchResult(minmax(color, b, 1, 0 - Infinity, Infinity, TRUE))

\* AIPlayer.get_medium_move: minmax at depth 2
get_medium_move(color, b) == SearchResult(minmax(color, b, 2, 0 - Infinity, Infinity, TRUE))

\* AIPlayer.get_hard_move: minmax at depth 3
get_hard_move(color, b) == SearchResult(minmax(color, b, 3, 0 - Infinity, Infinity, TRUE))

\* AIPlayer.get_best_move once its own list of legal moves is made
BestMove(ai, scan) ==
    IF scan.moves = <<>> THEN { [move |-> <<>>, board |-> scan.board] }
    ELSE IF ai.difficulty = "easy" THEN get_easy_move(ai.color, scan.board)
    ELSE IF ai.difficulty = "medium" THEN get_medium_move(ai.color, scan.board)
    ELSE IF ai.difficulty = "hard" THEN get_hard_move(ai.color, scan.board)
    ELSE { [move |-> <<>>, board |-> scan.board] }

\* AIPlayer.get_best_move: the set of results the call can have
get_best_move(ai, b) == BestMove(ai, AllLegalMoves(b, ai.color))

\* Game.make_ai_move after its call of make_move returned r
AIMoved(color, move, r) ==
    IF r.ok
    THEN [game |-> r.game, ok |-> TRUE,
          msg |-> << "AI (", color, ") moved from ", pos_to_algebraic(move[1]),
                     " to ", pos_to_algebraic(move[2]), "." >>]
    ELSE [game |-> r.game, ok |-> FALSE, msg |-> << "AI failed to make a valid move." >>]

\* Game.make_ai_move when there is no move: the end conditions are re-run
AINoMove(checked) ==
    [game |-> checked, ok |-> FALSE,
     msg |-> << "AI has no legal moves. Game status: ", checked.game_status >>]

\* Game.make_ai_move applying the move to the board itself instead of
\* submitting it through make_move
AIMoveOutcomeDirect(g, color, move) ==
    IF move = <<>> THEN AINoMove(check_game_end_conditions(g))
    ELSE AIMoved(color, move,
                 [game |-> [g EXCEPT !.board = move_piece(g.board, move[1], move[2]).board],
                  ok |-> TRUE, msg |-> << "Move successful." >>])

\* The rest of Game.make_ai_move(color) once get_best_move has returned `move`
AIMoveOutcome(g, color, move) ==
    IF move = <<>> THEN AINoMove(check_game_end_conditions(g))
    ELSE AIMoved(color, move, Game_make_move(g, move[1], move[2]))

\* Game.make_ai_move without the test of the requested color against the turn
MakeAIMoveAnyTurn(g, requested) ==
    IF g.game_status # "active"
    THEN { [game |-> g, ok |-> FALSE, msg |-> << "Game is not active. Status: ", g.game_status >>] }
    ELSE IF g.ai_player = NoAI
    THEN { [game |-> g, ok |-> FALSE,
            msg |-> << "No AI player configured for ", g.turn, "." >>] }
    ELSE { AIMoveOutcome([g EXCEPT !.board = found.board], g.turn, found.move) :
               found \in get_best_move(g.ai_player, g.board) }

\* Game.make_ai_move(color): the set of outcomes of the call; `requested` is
\* the color argument, None for the default
Game_make_ai_move(g, requested) ==
    IF g.game_status # "active"
    THEN { [game |-> g, ok |-> FALSE, msg |-> << "Game is not active. Status: ", g.game_status >>] }
    ELSE IF (IF requested = None THEN g.turn ELSE requested) # g.turn
    THEN { [game |-> g, ok |-> FALSE, msg |-> << "It is not ", requested, "'s turn." >>] }
    ELSE IF g.ai_player = NoAI
    THEN { [game |-> g, ok |-> FALSE,
            msg |-> << "No AI player configured for ", g.turn, "." >>] }
    ELSE { AIMoveOutcome([g EXCEPT !.board = found.board], g.turn, found.move) :
               found \in get_best_move(g.ai_player, g.board) }

\* --------------------------------------------------------------- inputs

\* A move request: the pair (from, to) of squares
Mv(c1, r1, c2, r2) == << Sq(c1, r1), Sq(c2, r2) >>

\* Fool's Mate: f2-f3 e7-e5 g2-g4 d8-h4
FoolsMate == << Mv(5,1,5,2), Mv(4,6,4,4), Mv(6,1,6,3), Mv(3,7,7,3) >>

\* Knights out and back, three times: g1-f3 g8-f6 f3-g1 f6-g8
KnightShuffle ==
    << Mv(6,0,5,2), Mv(6,7,5,5), Mv(5,2,6,0), Mv(5,5,6,7),
       Mv(6,0,5,2), Mv(6,7,5,5), Mv(5,2,6,0), Mv(5,5,6,7),
       Mv(6,0,5,2), Mv(6,7,5,5), Mv(5,2,6,0), Mv(5,5,6,7) >>

\* The lines played: Fool's Mate; Scholar's Mate (e2-e4 e7-e5 d1-h5 b8-c6
\* f1-c4 g8-f6 h5-f7); the shortest stalemate of S. Loyd (e2-e3 a7-a5 d1-h5
\* a8-a6 h5-a5 h7-h5 h2-h4 a6-h6 a5-c7 f7-f6 c7-d7 e8-f7 d7-b7 d8-d3 b7-b8
\* d3-h7 b8-c8 f7-g6 c8-e6); the knight shuffle; and a king that can step
\* into an attack (e2-e4 e7-e5 e1-e2 d8-g5)
Lines ==
    { FoolsMate,
      << Mv(4,1,4,3), Mv(4,6,4,4), Mv(3,0,7,4), Mv(1,7,2,5), Mv(5,0,2,3), Mv(6,7,5,5),
         Mv(7,4,5,6) >>,
      << Mv(4,1,4,2), Mv(0,6,0,4), Mv(3,0,7,4), Mv(0,7,0,5), Mv(7,4,0,4), Mv(7,6,7,4),
         Mv(7,1,7,3), Mv(0,5,7,5), Mv(0,4,2,6), Mv(5,6,5,5), Mv(2,6,3,6), Mv(4,7,5,6),
         Mv(3,6,1,6), Mv(3,7,3,2), Mv(1,6,1,7), Mv(3,2,7,6), Mv(1,7,2,7), Mv(5,6,6,5),
         Mv(2,7,4,5) >>,
      KnightShuffle,
      << Mv(4,1,4,3), Mv(4,6,4,4), Mv(4,0,4,1), Mv(3,7,6,4) >> }

\* The move log a line produces when every move of it is accepted
LogOf(line) == [i \in 1..Len(line) |->
                   << pos_to_algebraic(line[i][1]), pos_to_algebraic(line[i][2]) >>]

FreePlies == 2
MaxPlies == 19

\* The move requests made in a position.  While the game has followed one of
\* the lines: the next move of every such line; the tries e4-e5 (often from
\* an empty square), a1-a8 (a rook through its own pawn), f7-f6 (the pawn a
\* queen on h5 pins), and a step from e2 and from e8 (pawn or king); and,
\* while the game is less than FreePlies plies old, d2-d4, g2-g4, d7-d5 and
\* f7-f5.  None once the game has left the lines.
MoveInputs(log) ==
    IF \E line \in Lines : Len(log) <= Len(line) /\ log = SubSeq(LogOf(line), 1, Len(log))
    THEN { line[Len(log) + 1] :
              line \in { x \in Lines : /\ Len(log) < Len(x)
                                       /\ SubSeq(LogOf(x), 1, Len(log)) = log } }
         \cup { Mv(4,3,4,4), Mv(0,0,0,7), Mv(5,6,5,5), Mv(4,1,4,2), Mv(4,7,4,6) }
         \cup (IF Len(log) < FreePlies
               THEN { Mv(3,1,3,3), Mv(6,1,6,3), Mv(3,6,3,4), Mv(5,6,5,4) } ELSE {})
    ELSE {}

\* The agent is asked for a move along the first line and at the end of every line
AIAsked(log) ==
    \/ Len(log) <= Len(FoolsMate) /\ log = SubSeq(LogOf(FoolsMate), 1, Len(log))
    \/ \E line \in Lines : log = LogOf(line)

\* Difficulty: the values of the enum
Difficulties == { "easy", "medium", "hard" }

\* A field absent from a JSON payload
Missing == "<missing>"

\* The "game_mode" and "difficulty" fields of the payloads sent to /start
StartPayloads ==
    { << "player_vs_player", Missing >>, << "player_vs_ai", "easy" >>,
      << "player_vs_ai", "expert" >>, << "player_vs_ai", Missing >>, << Missing, "easy" >> }

\* ---------------------------------------------------------------- state

VARIABLES game, last, files

vars == << game, last, files >>

\* The files of app.py: data/games.json (NoFile while it does not exist) and
\* the rows of data/leaderboard.csv (none while it does not exist)
NoFile == [game_id |-> 0]
NoFiles == [games |-> NoFile, leaderboard |-> <<>>]

NoSq == <<>>

\* What the most recent call was given and what it returned: the operation, the
\* squares of a move request, the success flag, the message, and the HTTP
\* status of a handler (0 for a direct call)
Result(op, from, to, ok, msg, code) ==
    [op |-> op, from |-> from, to |-> to, ok |-> ok, msg |-> msg, code |-> code]

Init ==
    /\ game = NewGame
    /\ files = NoFiles
    /\ last = Result("init", NoSq, NoSq, TRUE, <<>>, 0)

\* game.start_game(difficulty, white, black, mode), called on the current object
StartGame(difficulty, mode) ==
    /\ game' = Game_start_game(game, difficulty, "Ann", "Bob", mode)
    /\ files' = files
    /\ last' = Result("start_game", NoSq, NoSq, TRUE, <<>>, 0)

\* The /start handler of app.py for the payload {player_white, player_black,
\* game_mode, difficulty}: the global game after the request and the response
start_game(g, data) ==
    IF data.game_mode = Missing
    THEN [game |-> g, code |-> 400]
    ELSE IF data.game_mode = "player_vs_ai" /\ data.difficulty = Missing
    THEN [game |-> g, code |-> 500]
    ELSE IF data.game_mode = "player_vs_ai" /\ data.difficulty \notin Difficulties
    THEN [game |-> g, code |-> 400]
    ELSE [game |-> Game_start_game(NewGame,
                                   IF data.game_mode = "player_vs_ai"
                                   THEN data.difficulty ELSE None,
                                   data.player_white, data.player_black,
                                   StrMode(data.game_mode)),
          code |-> 200]

HandleStart(mode, difficulty) ==
    \E r \in { start_game(game, [player_white |-> "Ann", player_black |-> "Bob",
                                 game_mode |-> mode, difficulty |-> difficulty]) } :
        /\ game' = r.game
        /\ files' = files
        /\ last' = Result("/start", NoSq, NoSq, r.code = 200, <<>>, r.code)

\* game.end_game()
EndGame ==
    /\ game' = Game_end_game(game)
    /\ files' = files
    /\ last' = Result("end_game", NoSq, NoSq, TRUE, <<>>, 0)

\* game.make_move(from, to)
MakeMove(from, to) ==
    /\ Len(game.board.moveHistory) < MaxPlies
    /\ \E r \in { Game_make_move(game, from, to) } :
          /\ game' = r.game
          /\ files' = files
          /\ last' = Result("make_move", from, to, r.ok, r.msg, 0)

\* game.make_ai_move(color)
MakeAIMove(requested) ==
    /\ AIAsked(game.board.moveHistory)
    /\ \E r \in Game_make_ai_move(game, requested) :
          /\ game' = r.game
          /\ files' = files
          /\ last' = Result("make_ai_move", requested, NoSq, r.ok, r.msg, 0)

\* The /ai-move handler of app.py
ai_move(g) ==
    IF g.game_status # "active" \/ g.ai_player = NoAI
    THEN { [game |-> g, ok |-> FALSE, code |-> 400,
            msg |-> << "AI move not available. Ensure the game is active and against AI." >>] }
    ELSE { [game |-> r.game, ok |-> r.ok, code |-> IF r.ok THEN 200 ELSE 400, msg |-> r.msg] :
              r \in Game_make_ai_move(g, None) }

HandleAIMove ==
    /\ AIAsked(game.board.moveHistory)
    /\ \E r \in ai_move(game) :
          /\ game' = r.game
          /\ files' = files
          /\ last' = Result("/ai-move", NoSq, NoSq, r.ok, r.msg, r.code)

Next ==
    \/ StartGame(None, PLAYER_VS_PLAYER)
    \/ StartGame("easy", PLAYER_VS_AI)
    \/ \E payload \in StartPayloads : HandleStart(payload[1], payload[2])
    \/ EndGame
    \/ \E mv \in MoveInputs(game.board.moveHistory) : MakeMove(mv[1], mv[2])
    \/ \E c \in {None, White, Black} : MakeAIMove(c)
    \/ HandleAIMove

Spec == Init /\ [][Next]_vars

\* ------------------------------------------------------------ positions

\* A Board whose grid has been cleared and filled with the pieces `placed`,
\* pairs of a piece and its square, each constructed with that square
PositionBoard(placed) ==
    [NewBoard EXCEPT
        !.grid = [s \in Squares |->
                     IF \E pl \in placed : pl[2] = s
                     THEN (CHOOSE pl \in placed : pl[2] = s)[1] ELSE NoPiece],
        !.position = [p \in PieceIds |->
                         IF \E pl \in placed : pl[1] = p
                         THEN (CHOOSE pl \in placed : pl[1] = p)[2] ELSE @[p]]]

\* White king a1, Black king c2, Black queen b6
QueenB6 == { << 32, Sq(0, 0) >>, << 31, Sq(2, 1) >>, << 30, Sq(1, 5) >> }

\* White king a1, Black king c2, Black queen b3
QueenB3 == { << 32, Sq(0, 0) >>, << 31, Sq(2, 1) >>, << 30, Sq(1, 2) >> }

\* The positions move_piece is called on: the two queen positions; a White
\* king e1 behind a White bishop e2 that a Black rook e8 pins, Black king a8;
\* a White king g1 behind pawns f2 g2 h2, mated by a Black rook a1, Black
\* king h8; and kings on e1 and e8 with White pawns d4, e4 facing Black pawns
\* d5, e5, a White knight on f3 and a Black knight on c6
Positions ==
    { QueenB6, QueenB3,
      { << 32, Sq(4, 0) >>, << 25, Sq(4, 1) >>, << 19, Sq(4, 7) >>, << 31, Sq(0, 7) >> },
      { << 32, Sq(6, 0) >>, << 11, Sq(5, 1) >>, << 13, Sq(6, 1) >>, << 15, Sq(7, 1) >>,
        << 19, Sq(0, 0) >>, << 31, Sq(7, 7) >> },
      { << 32, Sq(4, 0) >>, << 31, Sq(4, 7) >>, << 7, Sq(3, 3) >>, << 9, Sq(4, 3) >>,
        << 8, Sq(3, 4) >>, << 10, Sq(4, 4) >>, << 22, Sq(5, 2) >>, << 23, Sq(2, 5) >> } }

\* Calls of Board.move_piece made on each position
PosPlies == 1

\* The squares move_piece is asked to move from: every occupied square, and h5
MoveFroms(b) == { s \in Squares : b.grid[s] # NoPiece } \cup { Sq(7, 4) }

InitPos ==
    /\ files = NoFiles
    /\ game \in { [NewGame EXCEPT !.board = PositionBoard(placed)] : placed \in Positions }
    /\ last = Result("init", NoSq, NoSq, TRUE, <<>>, 0)

\* board.move_piece(from, to)
MovePiece(from, to) ==
    /\ Len(game.board.moveHistory) < PosPlies
    /\ \E r \in { move_piece(game.board, from, to) } :
          /\ game' = [game EXCEPT !.board = r.board]
          /\ files' = files
          /\ last' = Result("move_piece", NoSq, NoSq, r.ok, <<>>, 0)

\* board.has_legal_move(color)
ProbeHasLegalMove(color) ==
    \E r \in { HasLegalMove(game.board, color) } :
        /\ game' = [game EXCEPT !.board = r.board]
        /\ files' = files
        /\ last' = Result("has_legal_move", << color >>, NoSq, r.found, <<>>, 0)

\* board.is_color_in_check(color)
ProbeIsColorInCheck(color) ==
    /\ game' = game
    /\ files' = files
    /\ last' = Result("is_color_in_check", << color >>, NoSq,
                      is_color_in_check(game.board, color), <<>>, 0)

PosNext ==
    \/ \E from \in MoveFroms(game.board), to \in Squares : MovePiece(from, to)
    \/ \E color \in Colors : ProbeHasLegalMove(color)
    \/ \E color \in Colors : ProbeIsColorInCheck(color)

SpecPos == InitPos /\ [][PosNext]_vars

\* --------------------------------------------------------------- probes

\* White king a1 and rook a4, Black pawn a7, queen h4 and king e8: the rook
\* can take the pawn or the queen, the queen can take the rook
HangingQueen ==
    { << 32, Sq(0, 0) >>, << 17, Sq(0, 3) >>, << 2, Sq(0, 6) >>, << 30, Sq(7, 3) >>,
      << 31, Sq(4, 7) >> }

\* A started game whose board has been set to one of the positions, to the
\* position with the queen on b6 and a White pawn on h2, or to kings on e1 and
\* e8 with a Black pawn on e2, either side to move
InitProbe ==
    /\ files = NoFiles
    /\ game \in { [Game_start_game(NewGame, None, "Ann", "Bob", PLAYER_VS_PLAYER)
                      EXCEPT !.board = PositionBoard(placed), !.turn = turn] :
                   placed \in Positions \cup { HangingQueen, QueenB6 \cup { << 15, Sq(7, 1) >> },
                                            { << 32, Sq(4, 0) >>, << 31, Sq(4, 7) >>,
                                              << 10, Sq(4, 1) >> } },
                   turn \in Colors }
    /\ last = Result("init", NoSq, NoSq, TRUE, <<>>, 0)

\* A call is made on a fresh position, or the call just made is made again
Asked(op, args) == last.op = "init" \/ (last.op = op /\ last.from = args)

\* AIPlayer(difficulty, color).get_best_move(game.board); the searching agents
\* are asked for the side to move
GetBestMove(difficulty, color) ==
    /\ Asked("get_best_move", << difficulty, color >>)
    /\ difficulty = "easy" \/ color = game.turn
    /\ \E r \in get_best_move(AIPlayer(difficulty, color), game.board) :
          /\ game' = [game EXCEPT !.board = r.board]
          /\ files' = files
          /\ last' = Result("get_best_move", << difficulty, color >>, r.move,
                            r.move # <<>>, <<>>, 0)

\* AIPlayer(_, color).minmax(game.board, depth, -inf, inf, True), for the side
\* to move of a fresh position
Minmax(depth, color) ==
    /\ last.op = "init"
    /\ color = game.turn
    /\ \E r \in { minmax(color, game.board, depth, 0 - Infinity, Infinity, TRUE) } :
          /\ game' = [game EXCEPT !.board = r.board]
          /\ files' = files
          /\ last' = Result("minmax", << depth, color >>, r.move, TRUE, << r.score >>, 0)

\* AIPlayer(_, color).minmax(game.board, depth, -inf, inf, maximizing_player)
\* on a fresh position, the side to move being the one the node is for
MinmaxNode(depth, color, maximizing_player) ==
    /\ last.op = "init"
    /\ game.turn = IF maximizing_player THEN color ELSE Opposite(color)
    /\ \E r \in { minmax(color, game.board, depth, 0 - Infinity, Infinity, maximizing_player) } :
          /\ game' = [game EXCEPT !.board = r.board]
          /\ files' = files
          /\ last' = Result("minmax_node", << depth, color, maximizing_player >>, r.move,
                            TRUE, << r.score >>, 0)

\* game.make_ai_move() on a fresh position with Black to move, the game
\* being one against the Black agent of the given difficulty
MakeAIMoveAt(difficulty) ==
    /\ last.op = "init"
    /\ game.turn = Black
    /\ \E r \in Game_make_ai_move([game EXCEPT !.ai_player = AIPlayer(difficulty, Black),
                                                 !.difficulty = difficulty,
                                                 !.game_mode = PLAYER_VS_AI], None) :
          /\ game' = r.game
          /\ files' = files
          /\ last' = Result("make_ai_move", << difficulty >>, NoSq, r.ok, r.msg, 0)

\* game.board.get_all_legal_moves(color)
GetAllLegalMoves(color) ==
    /\ Asked("get_all_legal_moves", << color >>)
    /\ \E r \in { AllLegalMoves(game.board, color) } :
          /\ game' = [game EXCEPT !.board = r.board]
          /\ files' = files
          /\ last' = Result("get_all_legal_moves", << color >>, NoSq, TRUE, r.moves, 0)

\* game.board.has_legal_move(color)
HasLegalMoveAsked(color) ==
    /\ Asked("has_legal_move", << color >>)
    /\ ProbeHasLegalMove(color)

\* game.get_possible_moves(pos)
GetPossibleMoves(pos) ==
    /\ Asked("get_possible_moves", pos)
    /\ \E r \in { Game_get_possible_moves(game, pos) } :
          /\ game' = r.game
          /\ files' = files
          /\ last' = Result("get_possible_moves", pos, NoSq, TRUE, r.moves, 0)

ProbeNext ==
    \/ \E difficulty \in Difficulties, color \in Colors : GetBestMove(difficulty, color)
    \/ \E depth \in 1..3, color \in Colors : Minmax(depth, color)
    \/ \E depth \in 0..2, color \in Colors, maximizing_player \in BOOLEAN :
          MinmaxNode(depth, color, maximizing_player)
    \/ \E difficulty \in {"medium", "hard"} : MakeAIMoveAt(difficulty)
    \/ \E color \in Colors : GetAllLegalMoves(color)
    \/ \E color \in Colors : HasLegalMoveAsked(color)
    \/ \E pos \in MoveFroms(game.board) : GetPossibleMoves(pos)

SpecProbe == InitProbe /\ [][ProbeNext]_vars

\* ------------------------------------------------------------------ app

\* algebraic_to_tuple of app.py, on a string given as the sequence of its
\* characters: ValueError unless it is a file letter followed by a rank digit,
\* else (ord(pos[0]) - ord("a"), int(pos[1]) - 1)
algebraic_to_tuple(pos) ==
    IF \/ Len(pos) # 2
       \/ pos[1] \notin { FileLetters[i] : i \in 1..8 }
       \/ pos[2] \notin { RankDigits[i] : i \in 1..8 }
    THEN [raised |-> "ValueError", value |-> NoSq]
    ELSE [raised |-> None,
          value |-> << (CHOOSE i \in 1..8 : FileLetters[i] = pos[1]) - 1,
                       (CHOOSE i \in 1..8 : RankDigits[i] = pos[2]) - 1 >>]

\* Game.serialize_board_to_symbols: the symbol, or None, of every slot
serialize_board_to_symbols(board_grid) ==
    [s \in Squares |-> IF board_grid[s] = NoPiece THEN None ELSE get_symbol(board_grid[s])]

\* Game.get_game_state; the enum values of turn, winner and is_check are the
\* color strings, and str(game_mode) is one text per value of game_mode
get_game_state(g) ==
    [board |-> serialize_board_to_symbols(g.board.grid),
     turn |-> g.turn,
     status |-> g.game_status,
     winner |-> g.winner,
     is_check |-> is_check(g.board),
     move_history |-> g.board.moveHistory,
     players |-> [white |-> g.player_white, black |-> g.player_black],
     game_mode |-> g.game_mode]

\* get_current_state_json of app.py
get_current_state_json(g) ==
    IF g.game_status = "not_started"
    THEN [error |-> "Game not started. Please POST to /start first."]
    ELSE get_game_state(g)

\* update_leaderboard of app.py on the rows of the CSV file: the winner's row
\* gains a win, else the loser's row a loss, and rows are added for the names
\* not found
update_leaderboard(rows, winner_name, loser_name) ==
    [i \in 1..Len(rows) |->
        IF rows[i].player_name = winner_name THEN [rows[i] EXCEPT !.wins = @ + 1]
        ELSE IF rows[i].player_name = loser_name THEN [rows[i] EXCEPT !.losses = @ + 1]
        ELSE rows[i]]
    \o (IF \E i \in 1..Len(rows) : rows[i].player_name = winner_name THEN <<>>
        ELSE << [player_name |-> winner_name, wins |-> 1, losses |-> 0, draws |-> 0] >>)
    \o (IF \E i \in 1..Len(rows) : /\ rows[i].player_name = loser_name
                                      /\ rows[i].player_name # winner_name
        THEN <<>>
        ELSE << [player_name |-> loser_name, wins |-> 0, losses |-> 1, draws |-> 0] >>)

\* The /move handler once game.make_move has returned r: after a checkmate the
\* leaderboard is updated and the message names the winner
Moved(fs, r, winner, loser) ==
    IF ~r.ok THEN [game |-> r.game, files |-> fs, ok |-> FALSE, code |-> 400, msg |-> r.msg]
    ELSE IF r.game.game_status = "checkmate"
    THEN [game |-> r.game,
          files |-> [fs EXCEPT !.leaderboard = update_leaderboard(@, winner, loser)],
          ok |-> TRUE, code |-> 200, msg |-> << "Checkmate! ", winner, " wins." >>]
    ELSE [game |-> r.game, files |-> fs, ok |-> TRUE, code |-> 200, msg |-> r.msg]

\* The /move handler once both squares are parsed
MoveParsed(g, fs, r) ==
    Moved(fs, r,
          IF r.game.winner = White THEN r.game.player_white ELSE r.game.player_black,
          IF r.game.winner = White THEN r.game.player_black ELSE r.game.player_white)

\* The /move handler of app.py for the payload `data`, a JSON object whose
\* fields are strings
make_move(g, fs, data) ==
    IF g.game_status # "active"
    THEN [game |-> g, files |-> fs, ok |-> FALSE, code |-> 400,
          msg |-> << "Game not active (status: ", g.game_status,
                     "). Please start a new game." >>]
    ELSE IF "from" \notin DOMAIN data \/ "to" \notin DOMAIN data
    THEN [game |-> g, files |-> fs, ok |-> FALSE, code |-> 400,
          msg |-> << "Move requires 'from' and 'to' positions in algebraic notation (e.g., 'e2')." >>]
    ELSE IF algebraic_to_tuple(data.from).raised # None
    THEN [game |-> g, files |-> fs, ok |-> FALSE, code |-> 400,
          msg |-> << "Invalid algebraic notation. Use format like 'a2'." >>]
    ELSE IF algebraic_to_tuple(data.to).raised # None
    THEN [game |-> g, files |-> fs, ok |-> FALSE, code |-> 400,
          msg |-> << "Invalid algebraic notation. Use format like 'a2'." >>]
    ELSE MoveParsed(g, fs, Game_make_move(g, algebraic_to_tuple(data.from).value,
                                          algebraic_to_tuple(data.to).value))

\* The /end handler of app.py
end_game(g) == [game |-> Game_end_game(g), code |-> 200]

\* The /save handler of app.py: the state is written under a static game_id
save_game_to_file(g, fs) ==
    IF g.game_status = "not_started"
    THEN [files |-> fs, code |-> 400]
    ELSE [files |-> [fs EXCEPT !.games = [game_id |-> 1, game |-> get_current_state_json(g)]],
          code |-> 200]

\* The /load handler of app.py: 404 without the file; with it, the
\* reconstruction stops at `loaded_game.board = Game.Board()`, an attribute the
\* class Game does not have (AttributeError: 500), before `game` is replaced
load_game_from_file(g, fs) ==
    IF fs.games = NoFile
    THEN [game |-> g, code |-> 404]
    ELSE [game |-> g, code |-> 500]

\* The payload of a move request
Payload(from, to) == [from |-> from, to |-> to]

\* The log of Fool's Mate: f2-f3 e7-e5 g2-g4 d8-h4
FoolsMateLog ==
    << << << "f", "2" >>, << "f", "3" >> >>, << << "e", "7" >>, << "e", "5" >> >>,
       << << "g", "2" >>, << "g", "4" >> >>, << << "d", "8" >>, << "h", "4" >> >> >>

\* Moves accepted through /move in one game, and checkmates recorded in the
\* leaderboard, before the requests stop
AppPlies == 4
MaxGames == 1

\* The payloads sent to /move: the next move of Fool's Mate while the game
\* follows it, and in every position a legal or an illegal step of the e-pawn,
\* squares off the board, strings too short or too long, an upper-case file,
\* digit and letter swapped, and a field left out
MovePayloads(log) ==
    { Payload(<< "e", "2" >>, << "e", "4" >>), Payload(<< "e", "2" >>, << "e", "5" >>),
      Payload(<< "e", "9" >>, << "e", "4" >>), Payload(<< "e", "2" >>, << "i", "4" >>),
      Payload(<< "e", "2" >>, << "e" >>), Payload(<< "e", "2", "2" >>, << "e", "4" >>),
      Payload(<< "E", "2" >>, << "e", "4" >>), Payload(<< "e", "2" >>, << "4", "e" >>),
      [to |-> << "e", "4" >>], [from |-> << "e", "2" >>] }
    \cup
    (IF Len(log) < Len(FoolsMateLog) /\ log = SubSeq(FoolsMateLog, 1, Len(log))
     THEN { Payload(FoolsMateLog[Len(log) + 1][1], FoolsMateLog[Len(log) + 1][2]) }
     ELSE {})

\* The wins the leaderboard records
RECURSIVE GamesRecorded(_)
GamesRecorded(rows) ==
    IF rows = <<>> THEN 0 ELSE Head(rows).wins + GamesRecorded(Tail(rows))

\* POST /move
HandleMove(data) ==
    /\ Len(game.board.moveHistory) < AppPlies
    /\ \E r \in { make_move(game, files, data) } :
          /\ game' = r.game
          /\ files' = r.files
          /\ last' = Result("/move", data, NoSq, r.ok, r.msg, r.code)

\* GET /end
HandleEnd ==
    \E r \in { end_game(game) } :
        /\ game' = r.game
        /\ files' = files
        /\ last' = Result("/end", NoSq, NoSq, TRUE, <<>>, r.code)

\* POST /save
HandleSave ==
    \E r \in { save_game_to_file(game, files) } :
        /\ game' = game
        /\ files' = r.files
        /\ last' = Result("/save", NoSq, NoSq, r.code = 200, <<>>, r.code)

\* GET /load
HandleLoad ==
    \E r \in { load_game_from_file(game, files) } :
        /\ game' = r.game
        /\ files' = files
        /\ last' = Result("/load", NoSq, NoSq, r.code = 200, <<>>, r.code)

\* POST /start, while fewer than MaxGames games are on the leaderboard
HandleStartApp(mode, difficulty) ==
    /\ GamesRecorded(files.leaderboard) < MaxGames
    /\ \E r \in { start_game(game, [player_white |-> "Ann", player_black |-> "Bob",
                                    game_mode |-> mode, difficulty |-> difficulty]) } :
          /\ game' = r.game
          /\ files' = files
          /\ last' = Result("/start", << mode, difficulty >>, NoSq, r.code = 200, <<>>, r.code)

AppNext ==
    \/ \E payload \in StartPayloads : HandleStartApp(payload[1], payload[2])
    \/ \E data \in MovePayloads(game.board.moveHistory) : HandleMove(data)
    \/ HandleAIMove
    \/ HandleEnd
    \/ HandleSave
    \/ HandleLoad

SpecApp == Init /\ [][AppNext]_vars

\* --------------------------------------------------------------- pieces

\* Kings on e1 and e8; a White pawn on its start square c2 with a Black pawn
\* on c4; a Black pawn on its start square f7 with a White knight on f5; a
\* White rook on d4 and a Black bishop on g4
Scatter ==
    { << 32, Sq(4, 0) >>, << 31, Sq(4, 7) >>, << 5, Sq(2, 1) >>, << 6, Sq(2, 3) >>,
      << 12, Sq(5, 6) >>, << 21, Sq(5, 4) >>, << 17, Sq(3, 3) >>, << 27, Sq(6, 3) >> }

\* The boards of the piece probes: the scatter and one more piece, of each
\* class and color but the kings, on a free square that for a pawn is not on
\* the back rank of its own side, which it cannot reach
InitPieces ==
    /\ files = NoFiles
    /\ game \in { [NewGame EXCEPT !.board = PositionBoard(Scatter \cup { pl })] :
                    pl \in { x \in { 1, 2, 18, 19, 22, 23, 25, 28, 29, 30 } \X Squares :
                               /\ \A sc \in Scatter : sc[2] # x[2]
                               /\ PieceKind[x[1]] = "P" =>
                                     x[2][2] # (IF get_color(x[1]) = White THEN 0 ELSE 7) } }
    /\ last = Result("init", NoSq, NoSq, TRUE, <<>>, 0)

\* piece.get_moves(board.grid) for the piece on `pos` of the given board
GetMoves(pos) ==
    /\ last.op = "init"
    /\ game.board.grid[pos] # NoPiece
    /\ game' = game
    /\ files' = files
    /\ last' = Result("get_moves", pos, NoSq, TRUE, get_moves(game.board, game.board.grid[pos]), 0)

\* board.is_square_attacked_by(pos, attacking_color) for an occupied square
\* and the color that does not own it
IsSquareAttackedBy(pos, attacking_color) ==
    /\ last.op = "init"
    /\ game.board.grid[pos] # NoPiece
    /\ get_color(game.board.grid[pos]) # attacking_color
    /\ game' = game
    /\ files' = files
    /\ last' = Result("is_square_attacked_by", pos, << attacking_color >>,
                      is_square_attacked_by(game.board, pos, attacking_color), <<>>, 0)

\* board.is_color_in_check(color) on the given board
IsColorInCheck(color) ==
    /\ last.op = "init"
    /\ game' = game
    /\ files' = files
    /\ last' = Result("is_color_in_check", << color >>, NoSq,
                      is_color_in_check(game.board, color), <<>>, 0)

\* board.get_position_hash(turn) on the given board
GetPositionHash(turn) ==
    /\ last.op = "init"
    /\ game' = game
    /\ files' = files
    /\ last' = Result("get_position_hash", << turn >>, NoSq, TRUE,
                      get_position_hash(game.board, turn), 0)

\* board.move_piece(from, to) on the given board, from an occupied square to
\* its pseudo-legal destinations and to the square itself
MovePieceOnce(from, to) ==
    /\ last.op = "init"
    /\ game.board.grid[from] # NoPiece
    /\ to = from \/ InSeq(to, get_moves(game.board, game.board.grid[from]))
    /\ \E r \in { move_piece(game.board, from, to) } :
          /\ game' = [game EXCEPT !.board = r.board]
          /\ files' = files
          /\ last' = Result("move_piece", from, to, r.ok, <<>>, 0)

PiecesNext ==
    \/ \E pos \in Squares : GetMoves(pos)
    \/ \E pos \in Squares, color \in Colors : IsSquareAttackedBy(pos, color)
    \/ \E color \in Colors : IsColorInCheck(color)
    \/ \E turn \in Colors : GetPositionHash(turn)
    \/ \E from \in Squares, to \in Squares : MovePieceOnce(from, to)

SpecPieces == InitPieces /\ [][PiecesNext]_vars

\* --------------------------------------------------------------- claims

\* C1: in every state reached from start_game by make_move / make_ai_move
\* calls, the board holds exactly one king of each color, no piece occupies
\* two squares, and every piece's stored position is the square of the grid
\* slot that holds it.
C1_BoardConsistent ==
    game.board # NoBoard =>
        /\ \A color \in Colors :
              Cardinality({s \in Squares : /\ game.board.grid[s] # NoPiece
                                           /\ PieceKind[game.board.grid[s]] = "K"
                                           /\ get_color(game.board.grid[s]) = color}) = 1
        /\ \A p \in PieceIds : Cardinality({s \in Squares : game.board.grid[s] = p}) <= 1
        /\ \A s \in Squares :
              game.board.grid[s] # NoPiece => game.board.position[game.board.grid[s]] = s

\* A move has been accepted and a piece has been captured
C1_Witness ==
    /\ game.board # NoBoard
    /\ last.op \in {"make_move", "make_ai_move"}
    /\ last.ok
    /\ \E p \in PieceIds : \A s \in Squares : game.board.grid[s] # p

\* C2: make_move(from, to) returns success if and only if the status is
\* active, a piece stands on `from`, its color is the side to move, and
\* (from, to) is a member of get_all_legal_moves(side to move).
C2_AcceptedIffLegal ==
    [][ last'.op = "make_move" =>
          (last'.ok <=>
              /\ game.game_status = "active"
              /\ game.board.grid[last'.from] # NoPiece
              /\ get_color(game.board.grid[last'.from]) = game.turn
              /\ InSeq(<< last'.from, last'.to >>,
                       get_all_legal_moves(game.board, game.turn))) ]_vars

\* A request to move a piece of the side that is not to move has been rejected
C2_Witness ==
    /\ last.op = "make_move"
    /\ ~last.ok
    /\ game.game_status = "active"
    /\ game.board.grid[last.from] # NoPiece
    /\ get_color(game.board.grid[last.from]) # game.turn

\* C3: when make_move (and move_piece within it) rejects a move, the state
\* after the call is the state before it: grid, stored positions, position
\* fingerprint, move log, repetition history, turn, status and winner.
C3_RejectionChangesNothing ==
    [][ (last'.op = "make_move" /\ ~last'.ok) =>
          /\ game'.board.grid = game.board.grid
          /\ game'.board.position = game.board.position
          /\ game.board # NoBoard =>
                get_position_hash(game'.board, game'.turn)
                    = get_position_hash(game.board, game.turn)
          /\ game'.board.moveHistory = game.board.moveHistory
          /\ game'.board.position_history = game.board.position_history
          /\ game'.turn = game.turn
          /\ game'.game_status = game.game_status
          /\ game'.winner = game.winner
          /\ game' = game ]_vars

\* A pseudo-legal move of the side to move has been rejected because it
\* leaves that side's king attacked
C3_Witness ==
    /\ last.op = "make_move"
    /\ ~last.ok
    /\ game.game_status = "active"
    /\ game.board.grid[last.from] # NoPiece
    /\ get_color(game.board.grid[last.from]) = game.turn
    /\ InSeq(last.to, get_moves(game.board, game.board.grid[last.from]))

\* C4: after a successful make_move the status is checkmate if and only if the
\* opponent of the mover is in check and has no legal move, and then the
\* winner is the mover; in every state the winner is set if and only if the
\* status is checkmate.
C4_CheckmateIffMated ==
    /\ (game.winner # None <=> game.game_status = "checkmate")
    /\ [][ /\ game'.winner # None <=> game'.game_status = "checkmate"
           /\ (last'.op = "make_move" /\ last'.ok) =>
                 /\ game'.game_status = "checkmate" <=>
                       /\ is_color_in_check(game'.board, Opposite(game.turn))
                       /\ ~has_legal_move(game'.board, Opposite(game.turn))
                 /\ game'.game_status = "checkmate" => game'.winner = game.turn ]_vars

\* White has mated by an accepted move
C4_Witness ==
    /\ last.op = "make_move"
    /\ last.ok
    /\ game.game_status = "checkmate"
    /\ game.winner = White

\* C5: a game never remains active with the side to move having no legal move
C5_NeverActiveWithoutMove ==
    game.game_status = "active" => has_legal_move(game.board, game.turn)

\* C6: from a fresh game the moves f2-f3, e7-e5, g2-g4, d8-h4 are accepted one
\* after the other, and after the last one is_checkmate(White) is true,
\* has_legal_move(White) is false, the status is checkmate and the winner Black.
C6_FoolsMate ==
    [][ \A k \in 1..Len(FoolsMate) :
          ( /\ game.game_status = "active"
            /\ game.board.moveHistory = SubSeq(LogOf(FoolsMate), 1, k - 1)
            /\ last'.op = "make_move"
            /\ last'.from = FoolsMate[k][1]
            /\ last'.to = FoolsMate[k][2] ) =>
          /\ last'.ok
          /\ game'.board.moveHistory = SubSeq(LogOf(FoolsMate), 1, k)
          /\ k = Len(FoolsMate) =>
                /\ is_checkmate(game'.board, White)
                /\ ~has_legal_move(game'.board, White)
                /\ game'.game_status = "checkmate"
                /\ game'.winner = Black ]_vars

\* Black's queen has just been played to h4 at the end of the line
C6_Witness ==
    /\ last.op = "make_move"
    /\ last.ok
    /\ last.to = Sq(7, 3)
    /\ game.board.moveHistory = LogOf(FoolsMate)

\* C7 as stated: with White king a1, Black king c2 and Black queen b6, White
\* is not in check and has no legal move.
C7_QueenB6Stalemate ==
    game.board.grid = PositionBoard(QueenB6).grid =>
        /\ ~is_color_in_check(game.board, White)
        /\ ~has_legal_move(game.board, White)

\* C7, amended: with White king a1, Black king c2 and Black queen b6, White is
\* not in check and has a legal move, a1-a2 and no other; with the queen on b3
\* instead, White is not in check and has no legal move.
C7_QueenB6LeavesA2 ==
    /\ game.board.grid = PositionBoard(QueenB6).grid =>
          /\ ~is_color_in_check(game.board, White)
          /\ has_legal_move(game.board, White)
          /\ get_all_legal_moves(game.board, White) = << << Sq(0, 0), Sq(0, 1) >> >>
          /\ (last.op = "has_legal_move" /\ last.from = << White >>) => last.ok
          /\ (last.op = "is_color_in_check" /\ last.from = << White >>) => ~last.ok
    /\ game.board.grid = PositionBoard(QueenB3).grid =>
          /\ ~is_color_in_check(game.board, White)
          /\ ~has_legal_move(game.board, White)
          /\ (last.op = "has_legal_move" /\ last.from = << White >>) => ~last.ok
          /\ (last.op = "is_color_in_check" /\ last.from = << White >>) => ~last.ok

\* has_legal_move(White) has been called on the position with the queen on b6
C7_Witness ==
    /\ game.board.grid = PositionBoard(QueenB6).grid
    /\ last.op = "has_legal_move"
    /\ last.from = << White >>

\* C8 as stated: for any color and any squares (from, to), (from, to) is in
\* get_all_legal_moves(color) if and only if move_piece(from, to) on a copy of
\* the position succeeds.
C8_LegalIffMoveSucceeds ==
    \A color \in Colors :
        LET legal_moves == get_all_legal_moves(game.board, color)
        IN  \A from \in Squares, to \in Squares :
                InSeq(<< from, to >>, legal_moves) <=> move_piece(game.board, from, to).ok

\* C8, amended: (from, to) is in get_all_legal_moves(color) if and only if the
\* piece on `from` has the color `color` and move_piece(from, to) on a copy of
\* the position succeeds.  Stated in its two directions: every listed move
\* starts on a piece of that color and is accepted by move_piece; every pair
\* that starts on a piece of that color and that move_piece accepts is listed.
C8_LegalIffOwnMoveSucceeds ==
    \A color \in Colors :
        LET legal_moves == get_all_legal_moves(game.board, color)
        IN  /\ \A i \in 1..Len(legal_moves) :
                  /\ game.board.grid[legal_moves[i][1]] # NoPiece
                  /\ get_color(game.board.grid[legal_moves[i][1]]) = color
                  /\ move_piece(game.board, legal_moves[i][1], legal_moves[i][2]).ok
            /\ \A from \in Squares :
                  ( /\ game.board.grid[from] # NoPiece
                    /\ get_color(game.board.grid[from]) = color ) =>
                  \A to \in Squares :
                      move_piece(game.board, from, to).ok =>
                          InSeq(<< from, to >>, legal_moves)

\* move_piece has been called, and some piece has a pseudo-legal destination
\* that move_piece refuses
C8_Witness ==
    /\ last.op = "move_piece"
    /\ \E from \in Squares :
          /\ game.board.grid[from] # NoPiece
          /\ \E to \in Squares :
                /\ InSeq(to, get_moves(game.board, game.board.grid[from]))
                /\ ~move_piece(game.board, from, to).ok

\* The symbols of the standard setup, rank by rank from White's side
SetupSymbols ==
    << << "R", "N", "B", "Q", "K", "B", "N", "R" >>,
       << "P", "P", "P", "P", "P", "P", "P", "P" >>,
       <<>>, <<>>, <<>>, <<>>,
       << "p", "p", "p", "p", "p", "p", "p", "p" >>,
       << "r", "n", "b", "q", "k", "b", "n", "r" >> >>

\* "rnbqkbnr/pppppppp/8/8/8/8/PPPPPPPP/RNBQKBNR w"
InitialFingerprint ==
    << "r", "n", "b", "q", "k", "b", "n", "r", "/",
       "p", "p", "p", "p", "p", "p", "p", "p", "/",
       "8", "/", "8", "/", "8", "/", "8", "/",
       "P", "P", "P", "P", "P", "P", "P", "P", "/",
       "R", "N", "B", "Q", "K", "B", "N", "R", " ", "w" >>

\* The game start_game leaves: the standard setup, an empty log, a history
\* of the initial fingerprint alone with count 1, White to move, active, no winner
FreshGame(g) ==
    /\ \A s \in Squares :
          IF SetupSymbols[s[2] + 1] = <<>>
          THEN g.board.grid[s] = NoPiece
          ELSE /\ g.board.grid[s] # NoPiece
               /\ get_symbol(g.board.grid[s]) = SetupSymbols[s[2] + 1][s[1] + 1]
               /\ g.board.position[g.board.grid[s]] = s
    /\ Cardinality({ g.board.grid[s] : s \in Squares } \ {NoPiece}) = 32
    /\ g.board.moveHistory = <<>>
    /\ DOMAIN g.board.position_history = {InitialFingerprint}
    /\ g.board.position_history[InitialFingerprint] = 1
    /\ g.turn = White
    /\ g.game_status = "active"
    /\ g.winner = None

\* C9: start_game called in any state yields the standard 32-piece setup, an
\* empty move log, a repetition history of the initial fingerprint (White to
\* move) alone with count 1, turn White, status active and no winner.
C9_StartGameResets ==
    [][ (last'.op = "start_game" \/ (last'.op = "/start" /\ last'.code = 200)) =>
          FreshGame(game') ]_vars

\* start_game has been called on a game object that had been played before:
\* the agent of the earlier game is still bound in a human-vs-human game
C9_Witness ==
    /\ last.op = "start_game"
    /\ game.game_mode = PLAYER_VS_PLAYER
    /\ game.ai_player # NoAI
    /\ game.board.moveHistory = <<>>

\* C10: when /start is given game_mode "player_vs_ai" and a valid difficulty,
\* an agent of that difficulty is bound to Black.
C10_StartBindsAgent ==
    (last.op = "/start" /\ last.code = 200 /\ game.game_mode.value = "player_vs_ai") =>
        game.ai_player = AIPlayer(game.difficulty, Black)

\* make_ai_move(requested) is called for the agent of the side to move: the
\* game is active, an agent is bound, its color is the turn, and the color
\* asked for, if any, is the turn
AIMayMove(g, requested) ==
    /\ g.game_status = "active"
    /\ g.ai_player # NoAI
    /\ g.ai_player.color = g.turn
    /\ requested \in {None, g.turn}

\* C11: make_ai_move succeeds only if the game is active and the bound agent's
\* color is the side to move; called in any other situation (not active, no
\* agent, requested color not to move, agent's color not to move) it fails and
\* leaves board, turn, status, winner, move log and repetition history as
\* they were.
C11_AIMoveOnlyForSideToMove ==
    [][ last'.op = "make_ai_move" =>
          /\ last'.ok => AIMayMove(game, last'.from)
          /\ ~AIMayMove(game, last'.from) =>
                /\ ~last'.ok
                /\ game'.board = game.board
                /\ game'.turn = game.turn
                /\ game'.game_status = game.game_status
                /\ game'.winner = game.winner ]_vars

\* The agent bound to Black was asked on White's turn: it chose a Black move,
\* which make_move refused
C11_Witness ==
    /\ last.op = "make_ai_move"
    /\ ~last.ok
    /\ last.msg = << "AI failed to make a valid move." >>
    /\ game.game_status = "active"
    /\ game.ai_player # NoAI
    /\ game.ai_player.color # game.turn

\* The sum of the counters of a repetition history
RECURSIVE SumCounts(_, _)
SumCounts(history, keys) ==
    IF keys = {} THEN 0
    ELSE LET h == CHOOSE k \in keys : TRUE
         IN  history[h] + SumCounts(history, keys \ {h})

Recordings(b) == SumCounts(b.position_history, DOMAIN b.position_history)

\* g2 is g after `move` went through make_move: the move is on the board and
\* appended to the log, the end conditions are those of the new position, and
\* if the game is still active the turn is flipped and the position recorded once
SubmittedAs(g, g2, move) ==
    /\ g2 = Game_make_move(g, move[1], move[2]).game
    /\ g2.board.moveHistory =
          Append(g.board.moveHistory, << pos_to_algebraic(move[1]), pos_to_algebraic(move[2]) >>)
    /\ g2.board.grid[move[2]] = g.board.grid[move[1]]
    /\ g2.board.grid[move[1]] = NoPiece
    /\ g2.game_status \in {"active", "checkmate"}
    /\ g2.game_status = "checkmate" <=> is_checkmate(g2.board, Opposite(g.turn))
    /\ IF g2.game_status = "active"
       THEN /\ g2.turn = Opposite(g.turn)
            /\ Recordings(g2.board) = Recordings(g.board) + 1
            /\ get_position_hash(g2.board, g2.turn) \in DOMAIN g2.board.position_history
       ELSE /\ g2.turn = g.turn
            /\ g2.board.position_history = g.board.position_history

\* C12: when the game is active, it is the agent's color to move and that
\* color has a legal move, make_ai_move succeeds and changes the game exactly
\* as make_move does for a move get_best_move can return; it never answers
\* "AI failed to make a valid move."
C12_AIMoveIsSubmittedMove ==
    [][ ( /\ last'.op = "make_ai_move"
          /\ AIMayMove(game, last'.from)
          /\ has_legal_move(game.board, game.turn) ) =>
          /\ last'.ok
          /\ last'.msg # << "AI failed to make a valid move." >>
          /\ \E found \in get_best_move(game.ai_player, game.board) :
                SubmittedAs(game, game', found.move) ]_vars

\* The agent, as Black, has answered g2-g4 with the mating d8-h4
C12_Witness ==
    /\ last.op = "make_ai_move"
    /\ last.ok
    /\ game.game_status = "checkmate"
    /\ game.winner = Black
    /\ game.ai_player.color = Black

\* C13: for every position and every difficulty, get_best_move returns none
\* if and only if the agent's color has no legal move; otherwise it returns a
\* member of get_all_legal_moves(agent color), also when every branch searched
\* scores minus infinity.
C13_BestMoveIsLegal ==
    last.op = "get_best_move" =>
        LET legal_moves == get_all_legal_moves(game.board, last.from[2])
        IN  /\ last.to = <<>> <=> legal_moves = <<>>
            /\ last.to # <<>> => InSeq(last.to, legal_moves)

\* The hard agent, White in the position with the queen on b6, has returned
\* a1-a2, its one legal move, which the search scores minus infinity
C13_Witness ==
    /\ last.op = "get_best_move"
    /\ last.from = << "hard", White >>
    /\ game.board.grid = PositionBoard(QueenB6).grid
    /\ last.to = Mv(0, 0, 0, 1)
    /\ minmax(White, game.board, 3, 0 - Infinity, Infinity, TRUE).score = 0 - Infinity

\* Minimax without pruning: every legal move of every node is searched, with
\* the evaluation of depth 0 and the scores of positions without a legal move
\* that minmax uses
Extreme(values, maximizing_player) ==
    CHOOSE v \in values : \A w \in values : IF maximizing_player THEN w <= v ELSE v <= w

RECURSIVE FullWidth(_, _, _, _)
RECURSIVE FullWidthNode(_, _, _, _, _, _)
FullWidthNode(color, b, depth, maximizing_player, current_player_color, legal_moves) ==
    IF legal_moves = <<>>
    THEN IF is_color_in_check(b, current_player_color)
         THEN IF maximizing_player THEN 0 - Infinity ELSE Infinity
         ELSE 0
    ELSE Extreme({ FullWidth(color,
                             Simulate(b, b.grid[legal_moves[k][1]], legal_moves[k][1],
                                      legal_moves[k][2]),
                             depth - 1, ~maximizing_player) : k \in 1..Len(legal_moves) },
                 maximizing_player)

FullWidth(color, b, depth, maximizing_player) ==
    IF depth = 0
    THEN evaluate_board(color, b, IF maximizing_player THEN color ELSE Opposite(color))
    ELSE FullWidthNode(color, b, depth, maximizing_player,
                       IF maximizing_player THEN color ELSE Opposite(color),
                       get_all_legal_moves(b, IF maximizing_player THEN color
                                              ELSE Opposite(color)))

\* The full-width score of the position after `move`, the opponent to move
MoveScore(color, b, depth, move) ==
    FullWidth(color, Simulate(b, b.grid[move[1]], move[1], move[2]), depth - 1, FALSE)

\* C14: for any position and any depth from 1 to 3, the score minmax returns
\* for the full window (-infinity, +infinity) is the score of the unpruned
\* full-width minimax of that depth, and the move it returns has that score.
C14_PruningKeepsScore ==
    last.op = "minmax" =>
        /\ last.msg[1] = FullWidth(last.from[2], game.board, last.from[1], TRUE)
        /\ last.to # <<>> =>
              MoveScore(last.from[2], game.board, last.from[1], last.to) = last.msg[1]

\* minmax at depth 3 has returned a move and a finite score in a position
\* where the mover has several moves
C14_Witness ==
    /\ last.op = "minmax"
    /\ last.from[1] = 3
    /\ last.to # <<>>
    /\ last.msg[1] \notin {0 - Infinity, 0, Infinity}
    /\ Len(get_all_legal_moves(game.board, last.from[2])) > 3

\* The calls that only probe the position
ProbeOps ==
    { "get_best_move", "minmax", "get_all_legal_moves", "has_legal_move", "get_possible_moves" }

\* C15: every probing operation restores the position exactly: after
\* get_best_move / minmax (any difficulty, a loop left by pruning included),
\* get_all_legal_moves, has_legal_move and get_possible_moves return, the grid,
\* every piece's stored position, the move log and the repetition history are
\* what they were before the call.
C15_ProbesRestoreBoard ==
    [][ last'.op \in ProbeOps =>
          /\ game'.board.grid = game.board.grid
          /\ game'.board.position = game.board.position
          /\ game'.board.moveHistory = game.board.moveHistory
          /\ game'.board.position_history = game.board.position_history ]_vars

\* The search of depth 3 for `color` leaves the loop over the replies to its
\* second move early: searched with alpha at the score of the first move, the
\* second move gets a score that is not its full-width score
PrunedAtSecondMove(color, b, moves) ==
    /\ Len(moves) >= 2
    /\ minmax(color, Simulate(b, b.grid[moves[2][1]], moves[2][1], moves[2][2]), 2,
              MoveScore(color, b, 3, moves[1]), Infinity, FALSE).score
          # MoveScore(color, b, 3, moves[2])

\* The hard agent has searched a position in which pruning cut a loop short,
\* with captures among the moves searched
C15_Witness ==
    /\ last.op = "get_best_move"
    /\ last.from[1] = "hard"
    /\ last.to # <<>>
    /\ PrunedAtSecondMove(last.from[2], game.board,
                          sorted_moves(game.board,
                                       get_all_legal_moves(game.board, last.from[2])))
    /\ game.board.grid[sorted_moves(game.board,
                                    get_all_legal_moves(game.board, last.from[2]))[1][2]] # NoPiece

\* The square an entry of the move log names
SquareOf(algebraic) == CHOOSE s \in Squares : pos_to_algebraic(s) = algebraic

\* The fingerprints of the positions of a game, in order: the initial position
\* with White to move, then the position after each move of the log with the
\* sides alternating.  `b` is the board after the first k - 1 moves.
RECURSIVE Fingerprints(_, _, _, _)
Fingerprints(b, log, k, turn) ==
    << get_position_hash(b, turn) >> \o
    (IF k > Len(log) THEN <<>>
     ELSE Fingerprints(Simulate(b, b.grid[SquareOf(log[k][1])], SquareOf(log[k][1]),
                                SquareOf(log[k][2])),
                       log, k + 1, Opposite(turn)))

\* The counters of `history` are the numbers of occurrences of each
\* fingerprint among the first n of `reached`
CountsOccurrences(history, reached, n) ==
    /\ DOMAIN history = { reached[i] : i \in 1..n }
    /\ \A h \in DOMAIN history :
          history[h] = Cardinality({ i \in 1..n : reached[i] = h })

\* C16 as claimed: in every reachable state of a started game, each
\* fingerprint's counter is the number of times that position (occupancy and
\* side to move) has occurred so far, the initial position and the position
\* after each move of the log, so the counters sum to 1 + the length of the log.
C16_EveryPositionRecorded ==
    game.board # NoBoard =>
        /\ CountsOccurrences(game.board.position_history,
                             Fingerprints(NewBoard, game.board.moveHistory, 1, White),
                             Len(game.board.moveHistory) + 1)
        /\ Recordings(game.board) = 1 + Len(game.board.moveHistory)

\* C16 as the code has it: while the game is active every position reached
\* is counted once per occurrence and the counters sum to 1 + the length of
\* the log; a position that ends the game by checkmate is not recorded, so
\* after checkmate the counters cover the positions before the mating move and
\* sum to the length of the log.
C16_RecordedWhileActive ==
    game.board # NoBoard =>
        /\ game.game_status \in {"active", "checkmate"}
        /\ CountsOccurrences(game.board.position_history,
                             Fingerprints(NewBoard, game.board.moveHistory, 1, White),
                             IF game.game_status = "active"
                             THEN Len(game.board.moveHistory) + 1
                             ELSE Len(game.board.moveHistory))
        /\ Recordings(game.board) =
              IF game.game_status = "active" THEN 1 + Len(game.board.moveHistory)
              ELSE Len(game.board.moveHistory)

\* An active game of eight moves in which the initial position has occurred
\* three times
C16_Witness ==
    /\ game.game_status = "active"
    /\ Len(game.board.moveHistory) = 8
    /\ game.board.position_history[InitialFingerprint] = 3
    /\ Recordings(game.board) = 9

\* The knights have gone out and back `rounds` times: the log is the first
\* 4 * rounds moves of g1-f3 g8-f6 f3-g1 f6-g8 repeated
Shuffled(g, rounds) ==
    /\ g.game_status = "active"
    /\ g.board.moveHistory = SubSeq(LogOf(KnightShuffle), 1, 4 * rounds)

\* The knights are out for the `rounds`-th time: 4 * rounds - 2 moves
KnightsOut(g, rounds) ==
    /\ g.game_status = "active"
    /\ g.board.moveHistory = SubSeq(LogOf(KnightShuffle), 1, 4 * rounds - 2)

\* C17: when both sides shuffle their knights out and back so that the same
\* occupancy with the same side to move recurs, each recurrence raises that
\* fingerprint's counter by one and lowers evaluate_board for that position
\* and side by exactly 150, over three repetitions: the initial position with
\* White to move scores -150, -300, -450, -600 for either agent, and the
\* position with both knights out scores 150 less at each return.
C17_RepetitionLowersScore ==
    /\ \A rounds \in 0..3 :
          Shuffled(game, rounds) =>
              /\ game.turn = White
              /\ get_position_hash(game.board, game.turn) = InitialFingerprint
              /\ game.board.position_history[InitialFingerprint] = rounds + 1
              /\ \A color \in Colors :
                    evaluate_board(color, game.board, game.turn) = 0 - 150 * (rounds + 1)
    /\ \A rounds \in 1..3 :
          KnightsOut(game, rounds) =>
              /\ game.board.position_history[get_position_hash(game.board, game.turn)] = rounds
              /\ \A color \in Colors :
                    evaluate_board(color, game.board, game.turn) =
                        evaluate_board(color, [game.board EXCEPT !.position_history = <<>>],
                                       game.turn) - 150 * rounds

\* The knights are back home for the third time
C17_Witness ==
    /\ Shuffled(game, 3)
    /\ game.board.position_history[InitialFingerprint] = 4
    /\ evaluate_board(Black, game.board, White) = 0 - 600

\* The legal moves of `color` that capture
Captures(b, color) ==
    SelectSeq(get_all_legal_moves(b, color), LAMBDA move : b.grid[move[2]] # NoPiece)

\* The material value of the piece `move` captures
CapturedValue(b, move) == PIECE_VALUES[PieceKind[b.grid[move[2]]]]

\* `move` is what the easy agent may return given the legal moves and the captures
EasyPick(b, move, legal_moves, captures) ==
    IF captures # <<>>
    THEN /\ InSeq(move, captures)
         /\ \A i \in 1..Len(captures) : CapturedValue(b, captures[i]) <= CapturedValue(b, move)
    ELSE legal_moves # <<>> => InSeq(move, legal_moves)

\* C18: at Easy, whenever the agent's color has a legal capture, get_best_move
\* returns a legal capture whose captured piece has the maximum material value
\* among all legal captures; when there is no legal capture it returns some
\* member of the legal moves.
C18_EasyTakesBestCapture ==
    (last.op = "get_best_move" /\ last.from[1] = "easy") =>
        EasyPick(game.board, last.to, get_all_legal_moves(game.board, last.from[2]),
                 Captures(game.board, last.from[2]))

\* The easy agent, White, has taken the queen on h4 with the rook, the pawn on
\* a7 being the first capture in the list of legal moves
C18_Witness ==
    /\ last.op = "get_best_move"
    /\ last.from = << "easy", White >>
    /\ game.board.grid = PositionBoard(HangingQueen).grid
    /\ last.to = Mv(0, 3, 7, 3)
    /\ Captures(game.board, White)[1] = Mv(0, 3, 0, 6)

\* C19: get_best_move is deterministic: two invocations on the same position,
\* with the same agent color and difficulty, return the same move, for Medium
\* and Hard always and for Easy whenever a legal capture exists.
C19_SameMoveAgain ==
    [][ ( /\ last.op = "get_best_move"
          /\ last'.op = "get_best_move"
          /\ last'.from = last.from
          /\ \/ last.from[1] \in {"medium", "hard"}
             \/ Captures(game.board, last.from[2]) # <<>> ) =>
          last'.to = last.to ]_vars

\* The medium agent has chosen among several legal moves, none of which
\* captures
C19_Witness ==
    /\ last.op = "get_best_move"
    /\ last.from[1] = "medium"
    /\ last.to # <<>>
    /\ Len(get_all_legal_moves(game.board, last.from[2])) > 1
    /\ Captures(game.board, last.from[2]) = <<>>

\* The calls that submit a move
MoveOps == { "make_move", "make_ai_move", "/ai-move" }

\* C20: no sequence of moves ever puts the game in the draw status: however
\* often a position repeats and however many moves are played, an active game
\* stays active until a checkmate (or stalemate) is detected.
C20_NeverDraw ==
    /\ [](game.game_status # "draw")
    /\ [][ (game.game_status = "active" /\ last'.op \in MoveOps) =>
             game'.game_status \in {"active", "checkmate", "stalemate"} ]_vars

\* Twelve moves have been played, a position has been recorded four times
\* and the game is active
C20_Witness ==
    /\ Len(game.board.moveHistory) = 12
    /\ \E h \in DOMAIN game.board.position_history : game.board.position_history[h] >= 4
    /\ game.game_status = "active"
    /\ last.op = "make_move"
    /\ last.ok

\* C21: a Game is created not started; only start_game makes it active; in
\* the checkmate status every make_move and every make_ai_move is rejected
\* and changes nothing, until start_game or end_game is called; end_game from
\* any state gives a not-started game with no board, no winner and no agent.
C21_Lifecycle ==
    /\ [](last.op = "init" => game.game_status = "not_started")
    /\ [][ /\ (game.game_status # "active" /\ game'.game_status = "active") =>
                 last'.op \in {"start_game", "/start"}
           /\ (game.game_status = "checkmate" /\ last'.op \in {"make_move", "make_ai_move"}) =>
                 (~last'.ok /\ game' = game)
           /\ last'.op = "end_game" =>
                 /\ game'.game_status = "not_started"
                 /\ game'.board = NoBoard
                 /\ game'.winner = None
                 /\ game'.ai_player = NoAI ]_vars

\* The agent of a game that ended in checkmate was asked for a move and refused
C21_Witness ==
    /\ game.game_status = "checkmate"
    /\ game.ai_player # NoAI
    /\ last.op = "make_ai_move"
    /\ ~last.ok
    /\ last.msg = << "Game is not active. Status: ", "checkmate" >>

\* The mover's piece stands on the square a move request starts from
OwnPieceAt(g, pos) ==
    /\ g.game_status = "active"
    /\ g.board.grid[pos] # NoPiece
    /\ get_color(g.board.grid[pos]) = g.turn

\* C22: the failure message of make_move names the cause: a pseudo-legal
\* destination refused because the mover's own king would be in check gives
\* "Invalid move: your king would be in check.", a destination that is not
\* pseudo-legal for the piece gives "Invalid move for this piece."
C22_MessageNamesCause ==
    [][ (last'.op = "make_move" /\ ~last'.ok /\ OwnPieceAt(game, last'.from)) =>
          IF InSeq(last'.to, get_moves(game.board, game.board.grid[last'.from]))
          THEN last'.msg = << "Invalid move: your king would be in check." >>
          ELSE last'.msg = << "Invalid move for this piece." >> ]_vars

\* A string is a file letter a..h followed by a rank digit 1..8
WellFormed(str) ==
    /\ Len(str) = 2
    /\ str[1] \in {"a", "b", "c", "d", "e", "f", "g", "h"}
    /\ str[2] \in {"1", "2", "3", "4", "5", "6", "7", "8"}

\* A /move payload with a field missing or a malformed square
BadMove(data) ==
    \/ "from" \notin DOMAIN data
    \/ "to" \notin DOMAIN data
    \/ ~WellFormed(data.from)
    \/ ~WellFormed(data.to)

\* A /start payload in player_vs_ai mode whose difficulty is missing or is
\* not easy, medium or hard
BadStart(payload) ==
    /\ payload[1] = "player_vs_ai"
    /\ payload[2] \notin {"easy", "medium", "hard"}

\* C23: a /move request with a missing field or a malformed square, and a
\* /start request in player_vs_ai mode with a missing or unknown difficulty,
\* are answered 400 and leave the game object unchanged.
C23_InvalidShapeRejected ==
    [][ (\/ last'.op = "/move" /\ BadMove(last'.from)
         \/ last'.op = "/start" /\ BadStart(last'.from)) =>
            (last'.code = 400 /\ game' = game) ]_vars

\* The fields of a state snapshot that a saved game is resumed from
Snapshot(state) ==
    [board |-> state.board, turn |-> state.turn, status |-> state.status,
     winner |-> state.winner, move_history |-> state.move_history,
     players |-> state.players]

\* C24: loading after a save reconstructs the saved game: /load with a saved
\* file succeeds, and the snapshot of the game after it (board symbols, turn,
\* status, winner, move history, player names) is the saved snapshot.
C24_LoadRestoresSave ==
    [][ (last'.op = "/load" /\ files.games # NoFile) =>
          /\ last'.code = 200
          /\ game'.game_status # "not_started"
          /\ Snapshot(get_game_state(game')) = Snapshot(files.games.game) ]_vars

\* C25: square notation round-trips: for every square with both coordinates
\* in 0..7, pos_to_algebraic gives the letter 'a' + file and the digit
\* rank + 1 ((0,0) is a1, (7,7) is h8) and algebraic_to_tuple gives the square
\* back; every entry of the move log is a pair of such two-character strings,
\* and the entry a /move request adds is the pair of strings it was sent.
C25_NotationRoundTrip ==
    /\ [](/\ \A s \in Squares :
               /\ pos_to_algebraic(s) =
                     << << "a", "b", "c", "d", "e", "f", "g", "h" >>[s[1] + 1],
                        << "1", "2", "3", "4", "5", "6", "7", "8" >>[s[2] + 1] >>
               /\ algebraic_to_tuple(pos_to_algebraic(s)) = [raised |-> None, value |-> s]
           /\ pos_to_algebraic(Sq(0, 0)) = << "a", "1" >>
           /\ pos_to_algebraic(Sq(7, 7)) = << "h", "8" >>
           /\ \A i \in 1..Len(game.board.moveHistory) :
                 /\ Len(game.board.moveHistory[i]) = 2
                 /\ WellFormed(game.board.moveHistory[i][1])
                 /\ WellFormed(game.board.moveHistory[i][2]))
    /\ [][ (last'.op = "/move" /\ last'.ok) =>
             /\ game'.board.moveHistory =
                   Append(game.board.moveHistory, << last'.from.from, last'.from.to >>)
             /\ game.board.grid[algebraic_to_tuple(last'.from.from).value] # NoPiece
             /\ game'.board.grid[algebraic_to_tuple(last'.from.to).value] =
                   game.board.grid[algebraic_to_tuple(last'.from.from).value] ]_vars

\* Fool's Mate was sent to /move: the fourth entry of the log reads d8, h4
\* and the Black queen stands on (7, 3)
C25_Witness ==
    /\ last.op = "/move"
    /\ last.ok
    /\ Len(game.board.moveHistory) = 4
    /\ game.board.moveHistory[4] = << << "d", "8" >>, << "h", "4" >> >>
    /\ game.board.grid[Sq(7, 3)] = 30

\* C26: a successful make_move flips the turn if and only if the game is
\* still active afterwards (after a checkmating move the turn stays with the
\* mover), a rejected make_move never changes the turn, and in every active
\* state it is White's turn exactly when the move log has even length.
C26_TurnAlternates ==
    /\ [](game.game_status = "active" =>
             (game.turn = White <=> Len(game.board.moveHistory) % 2 = 0))
    /\ [][ last'.op = "make_move" =>
             IF last'.ok
             THEN (game'.turn # game.turn) <=> (game'.game_status = "active")
             ELSE game'.turn = game.turn ]_vars

\* Black has just mated with the fourth move of the game and is still the
\* side to move
C26_Witness ==
    /\ last.op = "make_move"
    /\ last.ok
    /\ game.game_status = "checkmate"
    /\ Len(game.board.moveHistory) = 4
    /\ game.turn = Black

\* The grid after the moves k.. of a log are replayed on `grid`: the piece on
\* the from-square goes to the to-square, whose occupant is discarded
RECURSIVE Replayed(_, _, _)
Replayed(grid, log, k) ==
    IF k > Len(log) THEN grid
    ELSE Replayed([grid EXCEPT ![SquareOf(log[k][2])] = grid[SquareOf(log[k][1])],
                               ![SquareOf(log[k][1])] = NoPiece],
                  log, k + 1)

\* C27: the move log is append-only and faithful: a successful move appends
\* exactly one [from, to] pair and leaves the earlier entries as they were, a
\* rejected move appends nothing, the search of the agent appends nothing
\* beyond the move it submits, and in every state of a started game the
\* occupancy of the board is the result of replaying the whole log from the
\* standard setup.
C27_LogFaithful ==
    /\ [](game.board # NoBoard =>
             game.board.grid = Replayed(StandardGrid, game.board.moveHistory, 1))
    /\ [][ last'.op \in MoveOps =>
             IF last'.ok
             THEN /\ Len(game'.board.moveHistory) = Len(game.board.moveHistory) + 1
                  /\ SubSeq(game'.board.moveHistory, 1, Len(game.board.moveHistory)) =
                        game.board.moveHistory
                  /\ Len(game'.board.moveHistory[Len(game'.board.moveHistory)]) = 2
                  /\ last'.op = "make_move" =>
                        game'.board.moveHistory[Len(game'.board.moveHistory)] =
                           << pos_to_algebraic(last'.from), pos_to_algebraic(last'.to) >>
             ELSE game'.board.moveHistory = game.board.moveHistory ]_vars

\* Scholar's Mate has been played: seven entries, the last one h5, f7, and
\* the White queen stands on f7 in place of the pawn it took
C27_Witness ==
    /\ last.op = "make_move"
    /\ last.ok
    /\ Len(game.board.moveHistory) = 7
    /\ game.board.moveHistory[7] = << << "h", "5" >>, << "f", "7" >> >>
    /\ game.board.grid[Sq(5, 6)] = 29
    /\ \A s \in Squares : game.board.grid[s] # 12

\* The symbols of the twelve (kind, color) pairs
Symbols == { "P", "p", "R", "r", "N", "n", "B", "b", "Q", "q", "K", "k" }

\* How many pieces with the symbol `sym` stand on the board
Count(b, sym) ==
    Cardinality({ s \in Squares : b.grid[s] # NoPiece /\ get_symbol(b.grid[s]) = sym })

\* The piece objects standing on the board
PiecesOn(b) == { b.grid[s] : s \in Squares } \ { NoPiece }

\* The squares of the pawns that stand on the far rank of their side
FarRankPawns(b) ==
    { s \in Squares : /\ b.grid[s] # NoPiece
                      /\ get_symbol(b.grid[s]) \in {"P", "p"}
                      /\ s[2] = (IF get_color(b.grid[s]) = White THEN 7 ELSE 0) }

\* C28: the piece population only shrinks: a successful move_piece leaves the
\* number of pieces of every (kind, color) unchanged when the destination was
\* empty and removes exactly the former occupant of the destination otherwise;
\* no call changes the kind of a piece or brings a piece back; a pawn on the
\* far rank is still a pawn and has no pseudo-legal destination.
C28_PopulationOnlyShrinks ==
    /\ [][ /\ PiecesOn(game'.board) \subseteq PiecesOn(game.board)
           /\ (last'.op = "move_piece" /\ last'.ok) =>
                 /\ PiecesOn(game'.board) = PiecesOn(game.board) \ { game.board.grid[last'.to] }
                 /\ \A sym \in Symbols :
                       Count(game'.board, sym) =
                          Count(game.board, sym) -
                          (IF /\ game.board.grid[last'.to] # NoPiece
                              /\ get_symbol(game.board.grid[last'.to]) = sym
                           THEN 1 ELSE 0)
                 /\ game'.board.grid[last'.to] = game.board.grid[last'.from]
           /\ (last'.op = "move_piece" /\ ~last'.ok) =>
                 game'.board.grid = game.board.grid ]_vars
    /\ [](\A s \in FarRankPawns(game.board) :
             /\ PieceKind[game.board.grid[s]] = "P"
             /\ get_moves(game.board, game.board.grid[s]) = <<>>)

\* The White pawn on d7 has just taken the Black king on e8: it stands on the
\* far rank, still a pawn, and no Black king is left
C28_Witness ==
    /\ last.op = "move_piece"
    /\ last.ok
    /\ last.from = Sq(3, 6)
    /\ last.to = Sq(4, 7)
    /\ game.board.grid[Sq(4, 7)] = 1
    /\ Count(game.board, "k") = 0
    /\ Count(game.board, "P") = 2

\* Some piece of `color` has `pos` among its pseudo-legal destinations
CanCapture(b, pos, color) ==
    \E s \in Squares :
        /\ b.grid[s] # NoPiece
        /\ get_color(b.grid[s]) = color
        /\ InSeq(pos, get_moves(b, b.grid[s]))

\* C29: for a square occupied by a piece of the color opposite to
\* attacking_color, is_square_attacked_by(square, attacking_color) is true if
\* and only if some piece of attacking_color has the square among its
\* get_moves; so is_color_in_check(color) is true exactly when an enemy piece
\* could pseudo-legally capture the king of that color.
C29_AttackedIffCapturable ==
    /\ last.op = "is_square_attacked_by" =>
          (last.ok <=> CanCapture(game.board, last.from, last.to[1]))
    /\ last.op = "is_color_in_check" =>
          (last.ok <=> \E s \in Squares :
                          /\ game.board.grid[s] # NoPiece
                          /\ get_symbol(game.board.grid[s]) = (IF last.from[1] = White THEN "K" ELSE "k")
                          /\ CanCapture(game.board, s, Opposite(last.from[1])))

\* The Black king e8 is attacked by a White knight on d6 and is in check
C29_Witness ==
    /\ last.op = "is_square_attacked_by"
    /\ last.from = Sq(4, 7)
    /\ last.to = << White >>
    /\ last.ok
    /\ game.board.grid[Sq(3, 5)] = 22
    /\ is_color_in_check(game.board, Black)

\* The destinations of a pawn of `color` on `pos`: one step forward onto an
\* empty square, two steps from the start rank over two empty squares, and a
\* forward diagonal step onto a square an enemy piece stands on
PawnDestinations(grid, color, pos) ==
    LET forward == IF color = White THEN 1 ELSE -1
        start == IF color = White THEN 1 ELSE 6
    IN  { t \in Squares :
            \/ /\ t = << pos[1], pos[2] + forward >>
               /\ grid[t] = NoPiece
            \/ /\ pos[2] = start
               /\ t = << pos[1], pos[2] + 2 * forward >>
               /\ grid[<< pos[1], pos[2] + forward >>] = NoPiece
               /\ grid[t] = NoPiece
            \/ /\ t[2] = pos[2] + forward
               /\ t[1] \in { pos[1] - 1, pos[1] + 1 }
               /\ grid[t] # NoPiece
               /\ get_color(grid[t]) # color }

\* C30: Pawn.get_moves returns exactly the square one step forward when it is
\* on the board and empty, the square two steps forward when the pawn is on
\* its start rank and both squares are empty, and each forward diagonal square
\* that is on the board and holds an enemy piece; nothing else and nothing twice.
C30_PawnMovesExact ==
    (last.op = "get_moves" /\ PieceKind[game.board.grid[last.from]] = "P") =>
        /\ { last.msg[i] : i \in 1..Len(last.msg) } =
              PawnDestinations(game.board.grid, get_color(game.board.grid[last.from]), last.from)
        /\ Len(last.msg) = Cardinality({ last.msg[i] : i \in 1..Len(last.msg) })

\* The Black pawn f7 with a White piece on g6 and the White knight on f5: one
\* step, the capture on g6, and no double step
C30_Witness ==
    /\ last.op = "get_moves"
    /\ last.from = Sq(5, 6)
    /\ game.board.grid[Sq(6, 5)] = 1
    /\ last.msg = << Sq(5, 5), Sq(6, 5) >>

\* |n| and the sign of n
Abs(n) == IF n < 0 THEN -n ELSE n
Sign(n) == IF n < 0 THEN -1 ELSE IF n > 0 THEN 1 ELSE 0

\* The squares strictly between `pos` and a square `t` on one of its rays are empty
ClearBetween(grid, pos, t) ==
    \A i \in 1..7 :
        (i < Abs(t[1] - pos[1]) \/ i < Abs(t[2] - pos[2])) =>
            grid[<< pos[1] + i * Sign(t[1] - pos[1]), pos[2] + i * Sign(t[2] - pos[2]) >>] = NoPiece

\* The destinations the rules give a rook, bishop, queen, knight or king of
\* `color` on `pos`: a square of the board other than `pos`, not occupied by
\* an own piece, that is reached along a ray of the slider with nothing in
\* between, by an L-offset of the knight, or by one step of the king
RuleDestinations(grid, kind, color, pos) ==
    { t \in Squares :
        /\ t # pos
        /\ grid[t] = NoPiece \/ get_color(grid[t]) # color
        /\ LET dx == Abs(t[1] - pos[1])
               dy == Abs(t[2] - pos[2])
           IN  CASE kind = "R" -> (dx = 0 \/ dy = 0) /\ ClearBetween(grid, pos, t)
                 [] kind = "B" -> dx = dy /\ ClearBetween(grid, pos, t)
                 [] kind = "Q" -> (dx = 0 \/ dy = 0 \/ dx = dy) /\ ClearBetween(grid, pos, t)
                 [] kind = "N" -> { dx, dy } = { 1, 2 }
                 [] kind = "K" -> dx <= 1 /\ dy <= 1 }

\* C31: for rook, bishop, queen, knight and king get_moves is the rule set:
\* sliders walk their rays (4 orthogonal, 4 diagonal, all 8 for the queen) to
\* the edge, stop before an own piece and on the first enemy piece; the knight
\* has its 8 L-offsets and the king its 8 neighbours, kept when on the board
\* and not own-occupied.  Every destination returned is on the board, is not
\* the origin and is not own-occupied, and none is returned twice.
C31_PieceMovesFollowRules ==
    (last.op = "get_moves" /\ PieceKind[game.board.grid[last.from]] # "P") =>
        /\ { last.msg[i] : i \in 1..Len(last.msg) } =
              RuleDestinations(game.board.grid, PieceKind[game.board.grid[last.from]],
                               get_color(game.board.grid[last.from]), last.from)
        /\ Len(last.msg) = Cardinality({ last.msg[i] : i \in 1..Len(last.msg) })
        /\ \A i \in 1..Len(last.msg) :
              /\ last.msg[i] \in Squares
              /\ last.msg[i] # last.from

\* A White queen on d1: it stops before its own rook d4, pawn c2 and king e1
\* and takes the Black bishop g4 at the end of the diagonal e2, f3
C31_Witness ==
    /\ last.op = "get_moves"
    /\ last.from = Sq(3, 0)
    /\ game.board.grid[Sq(3, 0)] = 29
    /\ InSeq(Sq(6, 3), last.msg)
    /\ ~InSeq(Sq(3, 3), last.msg)
    /\ Len(last.msg) = 8

\* The (square, symbol) pairs a fingerprint spells from its i-th character
\* on, read as ranks from rank 8 down separated by "/", a digit standing for
\* that many empty squares, up to the blank before the side to move
RECURSIVE Spelled(_, _, _, _)
Spelled(str, i, col, row) ==
    IF i > Len(str) \/ str[i] = " " THEN {}
    ELSE IF str[i] = "/" THEN Spelled(str, i + 1, 0, row - 1)
    ELSE IF \E n \in 1..8 : str[i] = RankDigits[n]
    THEN Spelled(str, i + 1, col + (CHOOSE n \in 1..8 : str[i] = RankDigits[n]), row)
    ELSE { << Sq(col, row), str[i] >> } \cup Spelled(str, i + 1, col + 1, row)

\* The (square, symbol) pairs of a grid
Occupancy(grid) ==
    { << sq, get_symbol(grid[sq]) >> : sq \in { x \in Squares : grid[x] # NoPiece } }

\* The grid with every piece replaced by another piece object of the same
\* symbol, where there is one
Relabelled(grid) ==
    [sq \in Squares |->
        IF grid[sq] = NoPiece THEN NoPiece
        ELSE IF \E q \in PieceIds : q # grid[sq] /\ get_symbol(q) = get_symbol(grid[sq])
        THEN CHOOSE q \in PieceIds : q # grid[sq] /\ get_symbol(q) = get_symbol(grid[sq])
        ELSE grid[sq]]

\* C32: get_position_hash is a canonical key: the fingerprint spells, rank 8
\* first, exactly the symbol on every square and then the side to move, so two
\* fingerprints are equal only if occupancy and side to move are; it depends
\* on the symbols only, so equal occupancy and side to move give equal
\* fingerprints; and the standard setup with White to move gives
\* "rnbqkbnr/pppppppp/8/8/8/8/PPPPPPPP/RNBQKBNR w".
C32_FingerprintCanonical ==
    /\ get_position_hash(NewBoard, White) =
          << "r", "n", "b", "q", "k", "b", "n", "r", "/",
             "p", "p", "p", "p", "p", "p", "p", "p", "/",
             "8", "/", "8", "/", "8", "/", "8", "/",
             "P", "P", "P", "P", "P", "P", "P", "P", "/",
             "R", "N", "B", "Q", "K", "B", "N", "R", " ", "w" >>
    /\ last.op = "get_position_hash" =>
          /\ Spelled(last.msg, 1, 0, 7) = Occupancy(game.board.grid)
          /\ Len(last.msg) >= 2
          /\ last.msg[Len(last.msg) - 1] = " "
          /\ last.msg[Len(last.msg)] = (IF last.from[1] = White THEN "w" ELSE "b")
          /\ \A i \in 1..(Len(last.msg) - 2) : last.msg[i] # " "
          /\ get_position_hash([game.board EXCEPT !.grid = Relabelled(@)], last.from[1]) =
                last.msg
          /\ get_position_hash(game.board, Opposite(last.from[1])) # last.msg

\* The fingerprint of the scatter with a Black queen on a1 and Black to move:
\* its last rank reads q3K3 and it ends in " b"
C32_Witness ==
    /\ last.op = "get_position_hash"
    /\ last.from = << Black >>
    /\ game.board.grid[Sq(0, 0)] = 30
    /\ SubSeq(last.msg, Len(last.msg) - 5, Len(last.msg)) = << "q", "3", "K", "3", " ", "b" >>

\* C33: has_legal_move(color) is true if and only if
\* get_all_legal_moves(color) is not empty, for every position and color, as
\* returned by a call and as computed on every board reached; so
\* is_checkmate(color) is true exactly when the color is in check and its
\* list of legal moves is empty.
C33_HasLegalIffListNonEmpty ==
    /\ last.op = "has_legal_move" =>
          (last.ok <=> get_all_legal_moves(game.board, last.from[1]) # <<>>)
    /\ \A color \in Colors :
          /\ has_legal_move(game.board, color) <=>
                get_all_legal_moves(game.board, color) # <<>>
          /\ is_checkmate(game.board, color) <=>
                /\ is_color_in_check(game.board, color)
                /\ get_all_legal_moves(game.board, color) = <<>>

\* White, mated on the back rank by the rook a1, was asked for a legal move:
\* none, although the king and the pawns have pseudo-legal destinations
C33_Witness ==
    /\ last.op = "has_legal_move"
    /\ last.from = << White >>
    /\ ~last.ok
    /\ game.board.grid[Sq(6, 0)] = 32
    /\ game.board.grid[Sq(0, 0)] = 19
    /\ is_checkmate(game.board, White)
    /\ get_moves(game.board, 32) # <<>>

\* The material value and the piece-square bonus of the pieces of `color`
\* among the squares `todo`, summed
RECURSIVE Worth(_, _, _)
Worth(grid, color, todo) ==
    IF todo = {} THEN 0
    ELSE LET sq == CHOOSE s \in todo : TRUE
             kind == PieceKind[grid[sq]]
             material == [P |-> 100, N |-> 320, B |-> 330, R |-> 500, Q |-> 900, K |-> 20000]
             rank == IF color = White THEN sq[2] ELSE 7 - sq[2]
             bonus == IF kind = "K" THEN 0 ELSE POSITION_TABLES[kind][rank + 1][sq[1] + 1]
         IN  material[kind] + bonus + Worth(grid, color, todo \ {sq})

\* The squares holding a piece of `color`
Held(grid, color) == { s \in Squares : grid[s] # NoPiece /\ get_color(grid[s]) = color }

\* The recorded count of the fingerprint of (b, turn)
Repetitions(b, turn) ==
    IF get_position_hash(b, turn) \in DOMAIN b.position_history
    THEN b.position_history[get_position_hash(b, turn)] ELSE 0

\* C34: evaluate_board(board, turn) is the sum over the agent's pieces of
\* material value plus piece-square bonus, minus the same sum over the
\* opponent's pieces, minus 150 times the recorded count of the fingerprint of
\* (board, turn); material is P 100, N 320, B 330, R 500, Q 900, K 20000, a
\* Black piece reads the table row 7 - rank, and the penalty is subtracted
\* for the agent whichever side is to move.
C34_EvaluationFormula ==
    \A color \in Colors, turn \in Colors :
        game.board.grid # <<>> =>
        evaluate_board(color, game.board, turn) =
            Worth(game.board.grid, color, Held(game.board.grid, color))
            - Worth(game.board.grid, Opposite(color), Held(game.board.grid, Opposite(color)))
            - 150 * Repetitions(game.board, turn)

\* A piece of Black has been taken, the position is recorded once for the
\* side to move and not for the other side, and the two sides are not worth
\* the same
C34_Witness ==
    /\ game.board.grid # <<>>
    /\ Repetitions(game.board, game.turn) = 1
    /\ Cardinality(Held(game.board.grid, Black)) < 16
    /\ Worth(game.board.grid, White, Held(game.board.grid, White))
         # Worth(game.board.grid, Black, Held(game.board.grid, Black))
    /\ evaluate_board(Black, game.board, game.turn)
         = evaluate_board(Black, game.board, Opposite(game.turn)) - 150

\* C35: minmax with depth 0 returns the static evaluation and no move, also
\* when the side to move has no legal move; with depth >= 1 and no legal move
\* for the side to move it returns no move and minus infinity when the
\* maximizer is to move and in check, plus infinity when the minimizer is to
\* move and in check, and 0 when the side to move is not in check.
C35_TerminalScores ==
    last.op = "minmax_node" =>
        LET depth == last.from[1]
            color == last.from[2]
            maximizing_player == last.from[3]
            mover == IF maximizing_player THEN color ELSE Opposite(color)
        IN  /\ depth = 0 =>
                  /\ last.to = <<>>
                  /\ last.msg = << evaluate_board(color, game.board, mover) >>
            /\ depth >= 1 /\ get_all_legal_moves(game.board, mover) = <<>> =>
                  /\ last.to = <<>>
                  /\ last.msg =
                        << IF ~is_color_in_check(game.board, mover) THEN 0
                           ELSE IF maximizing_player THEN 0 - Infinity ELSE Infinity >>
            /\ depth >= 1 /\ get_all_legal_moves(game.board, mover) # <<>> =>
                  last.to # <<>>

\* The node of the minimizer White, mated on the back rank, has been scored
\* plus infinity for the agent Black at depth 1
C35_Witness ==
    /\ last.op = "minmax_node"
    /\ last.from = << 1, Black, FALSE >>
    /\ is_checkmate(game.board, White)
    /\ last.to = <<>>
    /\ last.msg = << Infinity >>

\* The same position at depth 0: no move, the static evaluation, which is
\* finite, although White has no legal move
C35_WitnessDepth0 ==
    /\ last.op = "minmax_node"
    /\ last.from = << 0, White, TRUE >>
    /\ is_checkmate(game.board, White)
    /\ last.to = <<>>
    /\ last.msg[1] > 0 - Infinity
    /\ last.msg[1] < 0

\* The stalemated White of the position with the queen on b3 scores 0
C35_WitnessStalemate ==
    /\ last.op = "minmax_node"
    /\ last.from = << 2, White, TRUE >>
    /\ ~is_color_in_check(game.board, White)
    /\ last.to = <<>>
    /\ last.msg = << 0 >>

\* The scores minmax gets for the moves from the k-th on, in the order it
\* searches them, each with the window the scores before it have left; the
\* sequence ends where the loop is left
RECURSIVE SearchedScores(_, _, _, _, _, _, _, _)
SearchedScores(color, b, moves, k, depth, alpha, beta, maximizing_player) ==
    IF k > Len(moves) THEN <<>>
    ELSE LET seen == minmax(color, Simulate(b, b.grid[moves[k][1]], moves[k][1], moves[k][2]),
                            depth - 1, alpha, beta, ~maximizing_player).score
             a == IF maximizing_player /\ seen > alpha THEN seen ELSE alpha
             bt == IF ~maximizing_player /\ seen < beta THEN seen ELSE beta
         IN  IF bt <= a THEN << seen >>
             ELSE << seen >> \o SearchedScores(color, b, moves, k + 1, depth, a, bt,
                                                maximizing_player)

\* The node the last call of minmax was made on: the moves in the order they
\* are searched, the scores seen, and whether it is a node of the maximizer
Node ==
    LET maximizing_player == IF last.op = "minmax" THEN TRUE ELSE last.from[3]
        mover == IF maximizing_player THEN last.from[2] ELSE Opposite(last.from[2])
        moves == sorted_moves(game.board, get_all_legal_moves(game.board, mover))
    IN  [moves |-> moves,
         scores |-> SearchedScores(last.from[2], game.board, moves, 1, last.from[1],
                                   0 - Infinity, Infinity, maximizing_player),
         maximizing_player |-> maximizing_player]

\* x is strictly better than y at a node of the maximizer, or of the minimizer
Beats(maximizing_player, x, y) == IF maximizing_player THEN x > y ELSE x < y

\* C36: at a node with legal moves the move minmax returns is, in the
\* capture-sorted order, the first of the moves with the best score: its
\* searched score is strictly better than every score seen before it and no
\* score seen after it is strictly better; when no score is strictly better
\* than the initial bound the first move of the sorted order is returned.
C36_FirstBestMoveWins ==
    (last.op \in {"minmax", "minmax_node"} /\ last.from[1] >= 1) =>
        LET node == Node
            moves == node.moves
            scores == node.scores
            maxi == node.maximizing_player
        IN  moves # <<>> =>
            \E i \in 1..Len(scores) :
                /\ last.to = moves[i]
                /\ last.msg = << scores[i] >>
                /\ \A j \in 1..(i - 1) : Beats(maxi, scores[i], scores[j])
                /\ \A j \in (i + 1)..Len(scores) : ~Beats(maxi, scores[j], scores[i])
                /\ (\A j \in 1..Len(scores) :
                        ~Beats(maxi, scores[j], IF maxi THEN 0 - Infinity ELSE Infinity))
                      => i = 1

\* minmax at depth 3 returned a move that is not the first of the sorted
\* order, and a move searched after it got the same score
C36_Witness ==
    /\ last.op = "minmax"
    /\ last.from[1] = 3
    /\ LET node == Node
       IN  \E i \in 2..Len(node.scores) :
               /\ last.to = node.moves[i]
               /\ \E j \in (i + 1)..Len(node.scores) : node.scores[j] = node.scores[i]

\* White, with the king on a1 and a pawn on h2 against the queen on b6, is
\* mated after each of its three moves: all score minus infinity at depth 3
\* and a1-a2, the first of them, is returned
C36_WitnessDefault ==
    /\ last.op = "minmax"
    /\ last.from = << 3, White >>
    /\ game.board.grid[Sq(7, 1)] = 15
    /\ last.to = Mv(0, 0, 0, 1)
    /\ last.msg = << 0 - Infinity >>
    /\ Node.scores = << 0 - Infinity, 0 - Infinity, 0 - Infinity >>

\* 10 x (captured piece's material value) - (moving piece's material value)
CaptureKey(grid, move) ==
    LET material == [P |-> 100, N |-> 320, B |-> 330, R |-> 500, Q |-> 900, K |-> 20000]
    IN  10 * material[PieceKind[grid[move[2]]]] - material[PieceKind[grid[move[1]]]]

\* C37: in the sorted move list searched at a node of minmax every capturing
\* move comes before every non-capturing move, and the captures are in
\* descending order of 10 x (captured piece's value) - (moving piece's value).
C37_CapturesFirst ==
    (last.op \in {"minmax", "minmax_node"} /\ last.from[1] >= 1) =>
        LET grid == game.board.grid
            moves == sorted_moves(game.board,
                         get_all_legal_moves(game.board,
                             IF last.op = "minmax" \/ last.from[3] THEN last.from[2]
                             ELSE Opposite(last.from[2])))
        IN  \A i \in 1..Len(moves), j \in 1..Len(moves) :
                (i < j /\ grid[moves[j][2]] # NoPiece) =>
                    /\ grid[moves[i][2]] # NoPiece
                    /\ CaptureKey(grid, moves[i]) >= CaptureKey(grid, moves[j])

\* The king of `color` stands on a square an enemy piece could move to
KingAttacked(b, color) ==
    \E s \in Squares :
        /\ b.grid[s] # NoPiece
        /\ PieceKind[b.grid[s]] = "K"
        /\ get_color(b.grid[s]) = color
        /\ CanCapture(b, s, Opposite(color))

\* The player who made the last move: the turn passes on only while the game
\* stays active
JustMoved(g) == IF g.game_status = "active" THEN Opposite(g.turn) ELSE g.turn

\* C38: in every state of a started game the king of the player who has just
\* moved is not attacked, so at most one king is in check, and the check
\* indicator of the snapshot is none or the side to move or, at checkmate,
\* the loser.
C38_MoverNotInCheck ==
    (game.game_status # "not_started" /\ game.board.moveHistory # <<>>) =>
        /\ ~KingAttacked(game.board, JustMoved(game))
        /\ ~is_color_in_check(game.board, JustMoved(game))
        /\ ~(KingAttacked(game.board, White) /\ KingAttacked(game.board, Black))
        /\ get_game_state(game).is_check \in {None, Opposite(JustMoved(game))}
        /\ game.game_status = "checkmate" =>
              /\ get_game_state(game).is_check = Opposite(game.winner)
              /\ game.winner = JustMoved(game)

\* An active game in which the side to move is in check
C38_Witness ==
    /\ game.game_status = "active"
    /\ game.board.moveHistory # <<>>
    /\ get_game_state(game).is_check = game.turn
    /\ KingAttacked(game.board, game.turn)

\* A game ended by checkmate: the indicator names the loser
C38_WitnessMate ==
    /\ game.game_status = "checkmate"
    /\ get_game_state(game).is_check = Opposite(game.winner)
    /\ game.turn = game.winner

\* C39: after start_game in player-vs-player mode no agent is bound,
\* whatever was done with the Game object before: ai_player is none and every
\* make_ai_move is rejected, also when an earlier game against the agent was
\* not ended with end_game.
C39_NoAgentInPlayerVsPlayer ==
    game.game_mode = PLAYER_VS_PLAYER =>
        /\ game.ai_player = NoAI
        /\ last.op = "make_ai_move" => ~last.ok

\* The legal moves of `color` after which the opponent is checkmated
MatingMoves(b, color) ==
    LET legal_moves == get_all_legal_moves(b, color)
    IN  { legal_moves[i] : i \in { k \in 1..Len(legal_moves) :
              is_checkmate(move_piece(b, legal_moves[k][1], legal_moves[k][2]).board,
                           Opposite(color)) } }

\* C40: at medium and hard difficulty, when the agent's color has a legal
\* move that checkmates the opponent at once, get_best_move returns such a
\* move and the score of the root is plus infinity, and make_ai_move ends the
\* game with status checkmate and the agent's color as winner.
C40_MateInOneIsPlayed ==
    [][ /\ (last'.op = "get_best_move" /\ last'.from[1] \in {"medium", "hard"}
             /\ MatingMoves(game.board, last'.from[2]) # {}) =>
              /\ last'.to \in MatingMoves(game.board, last'.from[2])
              /\ minmax(last'.from[2], game.board, IF last'.from[1] = "medium" THEN 2 ELSE 3,
                        0 - Infinity, Infinity, TRUE).score = Infinity
        /\ (last'.op = "make_ai_move" /\ MatingMoves(game.board, Black) # {}) =>
              /\ last'.ok
              /\ game'.game_status = "checkmate"
              /\ game'.winner = Black
              /\ is_checkmate(game'.board, White) ]_vars

\* The hard agent, Black with the queen on b6 against the king on a1, has
\* moved and the game is over: White is checkmated and Black has won
C40_Witness ==
    /\ last.op = "make_ai_move"
    /\ last.from = << "hard" >>
    /\ last.ok
    /\ game.board.grid[Sq(2, 1)] = 31
    /\ game.board.grid[Sq(0, 0)] = 32
    /\ game.board.grid[Sq(1, 5)] = NoPiece
    /\ game.game_status = "checkmate"
    /\ game.winner = Black
    /\ is_checkmate(game.board, White)

====
